---- MODULE Spec2Model ----
(***************************************************************************)
(* A model of the Minecraft skin/cape pixel-art converter                  *)
(* (package minecraft_skin_pixelart): the block palette, the perceptual    *)
(* colour distance, nearest-block matching (skin mode), the greedy unique  *)
(* assignment (cape mode) and the rendering of the output canvas.          *)
(*                                                                         *)
(* Scale.  The program works on 64x64 skins, 64x32 capes and 16x16 block   *)
(* textures.  The model keeps the structure of every loop and scales the   *)
(* sizes down: SkinWidth x SkinHeight, CapeWidth x CapeHeight and          *)
(* BlockSize below stand for 64x64, 64x32 and 16.  As in the program, a    *)
(* cape is as wide as a skin and less high.                                *)
(*                                                                         *)
(* Numbers.  Python floats are modelled in fixed point: a distance is an   *)
(* integer number of tenths, the square root of the base term rounded      *)
(* down to a tenth.  The penalties (multiples of 0.1) are exact.           *)
(***************************************************************************)
EXTENDS Integers, Sequences, FiniteSets, TLC

(***************************************************************************)
(* Bounds of the model.                                                    *)
(***************************************************************************)
SkinWidth == 2
SkinHeight == 3
CapeWidth == 2
CapeHeight == 2
BlockSize == 2
MaxFiles == 2
PatternLen == 3
MaxLevel == 3

(***************************************************************************)
(* Arithmetic helpers.                                                     *)
(***************************************************************************)
Abs(x) == IF x < 0 THEN -x ELSE x

Max3(a, b, c) == IF a >= b /\ a >= c THEN a ELSE IF b >= c THEN b ELSE c

Min3(a, b, c) == IF a <= b /\ a <= c THEN a ELSE IF b <= c THEN b ELSE c

RECURSIVE SqrtSearch(_, _, _)
\* The largest s in lo..hi with s*s <= n (lo*lo <= n is assumed).
SqrtSearch(n, lo, hi) ==
    IF lo >= hi THEN lo
    ELSE LET mid == (lo + hi + 1) \div 2
         IN  IF mid * mid <= n THEN SqrtSearch(n, mid, hi)
                               ELSE SqrtSearch(n, lo, mid - 1)

\* math.sqrt on an integer, rounded down.
ISqrt(n) == SqrtSearch(n, 0, 46340)

\* Python 3 round(num / den) for num >= 0, den > 0: round half to even.
Round(num, den) ==
    LET q == num \div den
        r == num % den
    IN  IF 2 * r < den THEN q
        ELSE IF 2 * r > den THEN q + 1
        ELSE IF q % 2 = 0 THEN q ELSE q + 1

(***************************************************************************)
(* Python dicts keep insertion order; assigning to an existing key keeps   *)
(* the key's place.  A dict is a sequence of <<key, value>> pairs.         *)
(***************************************************************************)
DictKeys(d) == [i \in 1..Len(d) |-> d[i][1]]

DictHas(d, k) == \E i \in 1..Len(d) : d[i][1] = k

DictGet(d, k) == d[CHOOSE i \in 1..Len(d) : d[i][1] = k][2]

\* A faulty variant: an existing key keeps its value (dict.setdefault).
DictPut_setdefault(d, k, v) ==
    IF DictHas(d, k) THEN d ELSE Append(d, <<k, v>>)

DictPut(d, k, v) ==
    IF DictHas(d, k)
    THEN [i \in 1..Len(d) |-> IF d[i][1] = k THEN <<k, v>> ELSE d[i]]
    ELSE Append(d, <<k, v>>)

SeqToSet(s) == {s[i] : i \in 1..Len(s)}

(***************************************************************************)
(* ColorMatcher.color_distance_ciede2000, in tenths.                       *)
(*   weight_r = 2 + r_mean/256       = (1024 + r1 + r2) / 512              *)
(*   weight_g = 4.0                  = 2048 / 512                          *)
(*   weight_b = 2 + (255-r_mean)/256 = (1534 - r1 - r2) / 512              *)
(* warmth is kept doubled (an integer): warmth > 5 is 2*warmth > 10.       *)
(* brightness is kept tripled: 50 < brightness < 200 is 150 < sum < 600.   *)
(***************************************************************************)
\* A faulty variant: r_mean taken from the first colour alone.
weight_r512_first_only(r1, r2) == 1024 + 2 * r1

weight_r512(r1, r2) == 1024 + r1 + r2

weight_b512(r1, r2) == 1024 + 510 - (r1 + r2)

\* 512 * (weight_r*dr*dr + weight_g*dg*dg + weight_b*db*db)
WeightedSquares512(color1, color2) ==
    LET delta_r == color1[1] - color2[1]
        delta_g == color1[2] - color2[2]
        delta_b == color1[3] - color2[3]
    IN  weight_r512(color1[1], color2[1]) * delta_r * delta_r
        + 2048 * delta_g * delta_g
        + weight_b512(color1[1], color2[1]) * delta_b * delta_b

\* 10 * sqrt(n512 / 512), rounded down: ISqrt(floor(100 * n512 / 512)).
BaseDistance(color1, color2) ==
    LET n == WeightedSquares512(color1, color2)
    IN  ISqrt((n \div 128) * 25 + ((n % 128) * 25) \div 128)

\* 2 * ((r + g) / 2 - b)
Warmth2(c) == c[1] + c[2] - 2 * c[3]

Saturation(c) == Max3(c[1], c[2], c[3]) - Min3(c[1], c[2], c[3])

\* 3 * ((r + g + b) / 3)
Brightness3(c) == c[1] + c[2] + c[3]

\* abs(warmth1 - warmth2) * 0.8 when one is warm (> 5) and the other cool
\* (< -5), abs(warmth1 - warmth2) * 0.2 otherwise; in tenths.
warmth_penalty(color1, color2) ==
    LET w1 == Warmth2(color1)
        w2 == Warmth2(color2)
    IN  IF (w1 > 10 /\ w2 < -10) \/ (w1 < -10 /\ w2 > 10)
        THEN 4 * Abs(w1 - w2)
        ELSE Abs(w1 - w2)

\* abs(sat1 - sat2) * 0.5, in tenths.
saturation_penalty(color1, color2) ==
    5 * Abs(Saturation(color1) - Saturation(color2))

\* A faulty variant: "or" for "and" in the test of the block's colour.
gray_penalty_or(color1, color2) ==
    IF 150 < Brightness3(color1) /\ Brightness3(color1) < 600
       /\ Saturation(color1) > 15
    THEN IF Saturation(color2) < 15 \/ Warmth2(color2) < 20 THEN 700 ELSE 0
    ELSE 0

\* 70.0 when the source is of medium brightness with some saturation and the
\* block is gray (sat2 < 15) and not warm (warmth2 < 10); in tenths.
gray_penalty(color1, color2) ==
    IF 150 < Brightness3(color1) /\ Brightness3(color1) < 600
       /\ Saturation(color1) > 15
    THEN IF Saturation(color2) < 15 /\ Warmth2(color2) < 20 THEN 700 ELSE 0
    ELSE 0

color_distance_ciede2000(color1, color2) ==
    BaseDistance(color1, color2) + warmth_penalty(color1, color2)
    + saturation_penalty(color1, color2) + gray_penalty(color1, color2)

(***************************************************************************)
(* Images.  An image is its size <<width, height>> and its pixels in       *)
(* row-major order; a pixel is <<r, g, b>> (mode RGB) or <<r, g, b, a>>    *)
(* (mode RGBA).                                                            *)
(***************************************************************************)
\* Image.convert('RGBA') on one pixel: an RGB pixel becomes opaque.
ConvertPixelRGBA(pixel) == IF Len(pixel) >= 4 THEN pixel ELSE Append(pixel, 255)

\* Image.convert('RGBA')
ConvertRGBA(image) ==
    [size |-> image.size,
     data |-> [k \in 1..Len(image.data) |-> ConvertPixelRGBA(image.data[k])]]

\* Image.getpixel((x, y))
getpixel(image, x, y) == image.data[y * image.size[1] + x + 1]

\* pixel_color[:3]
RGB(pixel_color) == SubSeq(pixel_color, 1, 3)

\* The model's None for an absent block name (block names are never empty).
None == <<>>

(***************************************************************************)
(* File names are sequences of dot-separated segments: "stone.png" is      *)
(* <<"stone", "png">>.                                                     *)
(***************************************************************************)
\* str.lower() on the segments the model uses.
Lower(s) == CASE s = "PNG" -> "png" [] s = "Png" -> "png" [] OTHER -> s

\* A faulty variant: filename.endswith('.png'), without lower().
EndsWithPng_case_sensitive(filename) ==
    Len(filename) >= 2 /\ filename[Len(filename)] = "png"

\* filename.lower().endswith('.png')
EndsWithPng(filename) ==
    Len(filename) >= 2 /\ Lower(filename[Len(filename)]) = "png"

\* os.path.splitext(filename)[0]: the name up to its last dot; leading dots
\* belong to the root, so ".png" has no extension.
SplitExtRoot(filename) ==
    IF Len(filename) >= 2
       /\ \E i \in 1..(Len(filename) - 1) : filename[i] # ""
    THEN SubSeq(filename, 1, Len(filename) - 1)
    ELSE filename

(***************************************************************************)
(* BlockPalette._calculate_average_color on a texture of alpha 255         *)
(* throughout, as every texture of the palettes below is: each weight      *)
(* a / 255.0 is 1.0, the sums are whole numbers, and the result is         *)
(* round(sum(r) / count).  CalculateAverageColorPixel further down runs    *)
(* the loop in double arithmetic for any alpha.                            *)
(***************************************************************************)
RECURSIVE WeightedChannelSum(_, _, _)
\* The sum over the first n pixels of channel ch times alpha (ch = 4: of alpha).
WeightedChannelSum(pixels, ch, n) ==
    IF n = 0 THEN 0
    ELSE WeightedChannelSum(pixels, ch, n - 1)
         + (IF ch = 4 THEN pixels[n][4] ELSE pixels[n][ch] * pixels[n][4])

calculate_average_color(texture) ==
    LET pixels == texture.data
        n == Len(pixels)
        weight_sum == WeightedChannelSum(pixels, 4, n)
    IN  IF weight_sum = 0 THEN <<0, 0, 0>>
        ELSE <<Round(WeightedChannelSum(pixels, 1, n), weight_sum),
               Round(WeightedChannelSum(pixels, 2, n), weight_sum),
               Round(WeightedChannelSum(pixels, 3, n), weight_sum)>>

(***************************************************************************)
(* The files the blocks directory may hold.  A texture's texels differ     *)
(* from one another in the blue channel (spread evenly around the colour), *)
(* so that a copy of the texture can be told from a shifted or scaled one. *)
(***************************************************************************)
SkinTone == <<200, 150, 120>>
Gray == <<128, 128, 128>>
Tan == <<190, 140, 100>>

TextureImage(rgb, side, alpha) ==
    [size |-> <<side, side>>,
     data |-> [k \in 1..(side * side) |->
                  LET texel == <<rgb[1], rgb[2], rgb[3] - (side * side - 1) + 2 * (k - 1)>>
                  IN  IF alpha THEN Append(texel, 255) ELSE texel]]

TextureFile(filename, rgb, side, alpha) ==
    [filename |-> filename, decodes |-> TRUE, image |-> TextureImage(rgb, side, alpha)]

StoneFile == TextureFile(<<"stone", "png">>, Gray, BlockSize, FALSE)
SandFile == TextureFile(<<"sand", "png">>, SkinTone, BlockSize, TRUE)
AndesiteFile == TextureFile(<<"andesite", "PNG">>, Gray, BlockSize - 1, TRUE)
PlanksFile == TextureFile(<<"planks", "png">>, Tan, BlockSize + 1, TRUE)

BlockFiles == {StoneFile, SandFile, AndesiteFile, PlanksFile}

\* os.listdir: the files of a directory, in any order.
Listings ==
    UNION {{l \in [1..n -> BlockFiles] : \A i, j \in 1..n : i # j => l[i] # l[j]}
           : n \in 0..MaxFiles}

Directories ==
    {[kind |-> "missing", listing |-> <<>>], [kind |-> "file", listing |-> <<>>]}
    \cup {[kind |-> "dir", listing |-> l] : l \in Listings}

(***************************************************************************)
(* BlockPalette.load_blocks: the loop over os.listdir.                     *)
(***************************************************************************)
RECURSIVE LoadLoop_break(_, _, _)
\* A faulty variant: "break" for "continue" in the except clause.
LoadLoop_break(listing, i, st) ==
    IF i > Len(listing) THEN st
    ELSE LET file == listing[i]
             block_name == SplitExtRoot(file.filename)
         IN  IF ~EndsWithPng(file.filename) THEN LoadLoop_break(listing, i + 1, st)
             ELSE IF ~file.decodes THEN st
             ELSE LET texture == ConvertRGBA(file.image)
                  IN  LoadLoop_break(listing, i + 1,
                        [blocks |-> DictPut(st.blocks, block_name, texture),
                         average_colors |->
                            DictPut(st.average_colors, block_name,
                                    calculate_average_color(texture)),
                         loaded_count |-> st.loaded_count + 1])

RECURSIVE LoadLoop_store_opened(_, _, _)
\* A faulty variant: "self.blocks[block_name] = Image.open(filepath)" before
\* the conversion, so that the name of a file that does not decode is kept.
LoadLoop_store_opened(listing, i, st) ==
    IF i > Len(listing) THEN st
    ELSE LET file == listing[i]
             block_name == SplitExtRoot(file.filename)
         IN  IF ~EndsWithPng(file.filename) THEN LoadLoop_store_opened(listing, i + 1, st)
             ELSE IF ~file.decodes
                  THEN LoadLoop_store_opened(listing, i + 1,
                        [blocks |-> DictPut(st.blocks, block_name, file.image),
                         average_colors |-> st.average_colors,
                         loaded_count |-> st.loaded_count])
             ELSE LET texture == ConvertRGBA(file.image)
                  IN  LoadLoop_store_opened(listing, i + 1,
                        [blocks |-> DictPut(st.blocks, block_name, texture),
                         average_colors |->
                            DictPut(st.average_colors, block_name,
                                    calculate_average_color(texture)),
                         loaded_count |-> st.loaded_count + 1])

RECURSIVE LoadLoop(_, _, _)
LoadLoop(listing, i, st) ==
    IF i > Len(listing) THEN st
    ELSE LET file == listing[i]
             block_name == SplitExtRoot(file.filename)
         IN  IF ~EndsWithPng(file.filename) THEN LoadLoop(listing, i + 1, st)
             ELSE IF ~file.decodes THEN LoadLoop(listing, i + 1, st)
             ELSE LET texture == ConvertRGBA(file.image)
                  IN  LoadLoop(listing, i + 1,
                        [blocks |-> DictPut(st.blocks, block_name, texture),
                         average_colors |->
                            DictPut(st.average_colors, block_name,
                                    calculate_average_color(texture)),
                         loaded_count |-> st.loaded_count + 1])

\* BlockPalette.get_all_blocks
get_all_blocks(blocks, average_colors) ==
    [i \in 1..Len(blocks) |-> <<blocks[i][1], DictGet(average_colors, blocks[i][1])>>]

\* BlockPalette.get_block_texture
get_block_texture(blocks, block_name) == DictGet(blocks, block_name)

(***************************************************************************)
(* ColorMatcher.find_closest_block.  The scan also reports how many        *)
(* palette entries it measured and whether it asked the palette at all.    *)
(***************************************************************************)
\* float('inf'): larger than every distance.
Infinity == 2147483647

\* A faulty variant: "return closest_block" one level out, so that the loop
\* returns at the first entry that improves on min_distance.
ScanBlocks_first_improvement(all_blocks, i, pixel_rgb, min_distance, closest_block) ==
    IF i > Len(all_blocks)
    THEN [closest_block |-> closest_block, scanned |-> Len(all_blocks), consulted |-> TRUE]
    ELSE [closest_block |-> all_blocks[i][1], scanned |-> i, consulted |-> TRUE]

RECURSIVE ScanBlocks_le(_, _, _, _, _)
\* A faulty variant: "distance <= min_distance", the last of equals wins.
ScanBlocks_le(all_blocks, i, pixel_rgb, min_distance, closest_block) ==
    IF i > Len(all_blocks)
    THEN [closest_block |-> closest_block, scanned |-> Len(all_blocks), consulted |-> TRUE]
    ELSE LET distance == color_distance_ciede2000(pixel_rgb, all_blocks[i][2])
         IN  IF distance <= min_distance
             THEN IF distance = 0
                  THEN [closest_block |-> all_blocks[i][1], scanned |-> i,
                        consulted |-> TRUE]
                  ELSE ScanBlocks_le(all_blocks, i + 1, pixel_rgb, distance, all_blocks[i][1])
             ELSE ScanBlocks_le(all_blocks, i + 1, pixel_rgb, min_distance, closest_block)

RECURSIVE ScanBlocks_exit_before_update(_, _, _, _, _)
\* A faulty variant: the test "distance == 0" and its return stand before the
\* update of closest_block.
ScanBlocks_exit_before_update(all_blocks, i, pixel_rgb, min_distance, closest_block) ==
    IF i > Len(all_blocks)
    THEN [closest_block |-> closest_block, scanned |-> Len(all_blocks), consulted |-> TRUE]
    ELSE LET distance == color_distance_ciede2000(pixel_rgb, all_blocks[i][2])
         IN  IF distance = 0
             THEN [closest_block |-> closest_block, scanned |-> i, consulted |-> TRUE]
             ELSE IF distance < min_distance
                  THEN ScanBlocks_exit_before_update(all_blocks, i + 1, pixel_rgb, distance,
                                                     all_blocks[i][1])
                  ELSE ScanBlocks_exit_before_update(all_blocks, i + 1, pixel_rgb,
                                                     min_distance, closest_block)

RECURSIVE ScanBlocks(_, _, _, _, _)
\* The loop "for block_name, block_color in all_blocks", from entry i on.
ScanBlocks(all_blocks, i, pixel_rgb, min_distance, closest_block) ==
    IF i > Len(all_blocks)
    THEN [closest_block |-> closest_block, scanned |-> Len(all_blocks), consulted |-> TRUE]
    ELSE LET distance == color_distance_ciede2000(pixel_rgb, all_blocks[i][2])
         IN  IF distance < min_distance
             THEN IF distance = 0
                  THEN [closest_block |-> all_blocks[i][1], scanned |-> i,
                        consulted |-> TRUE]
                  ELSE ScanBlocks(all_blocks, i + 1, pixel_rgb, distance, all_blocks[i][1])
             ELSE ScanBlocks(all_blocks, i + 1, pixel_rgb, min_distance, closest_block)

\* A faulty variant: "pixel_color[3] <= 128".
FindClosestScan_le128(palette_blocks, palette_colors, pixel_color) ==
    IF Len(pixel_color) >= 4 /\ pixel_color[4] <= 128
    THEN [closest_block |-> None, scanned |-> 0, consulted |-> FALSE]
    ELSE ScanBlocks(get_all_blocks(palette_blocks, palette_colors), 1,
                    RGB(pixel_color), Infinity, None)

FindClosestScan(palette_blocks, palette_colors, pixel_color) ==
    IF Len(pixel_color) >= 4 /\ pixel_color[4] < 128
    THEN [closest_block |-> None, scanned |-> 0, consulted |-> FALSE]
    ELSE ScanBlocks(get_all_blocks(palette_blocks, palette_colors), 1,
                    RGB(pixel_color), Infinity, None)

find_closest_block(palette_blocks, palette_colors, pixel_color) ==
    FindClosestScan(palette_blocks, palette_colors, pixel_color).closest_block

(***************************************************************************)
(* CapeProcessor._find_best_unused_block.  candidates.sort(key=...) is     *)
(* stable, so candidates[0] is the first candidate of least distance.      *)
(***************************************************************************)
\* A faulty variant: the test "block_name not in used_blocks" left out.
Candidates_unfiltered(all_blocks, color, used) ==
    [i \in 1..Len(all_blocks) |->
        <<color_distance_ciede2000(color, all_blocks[i][2]), all_blocks[i][1]>>]

Candidates(all_blocks, color, used) ==
    LET unused == SelectSeq(all_blocks, LAMBDA b : b[1] \notin used)
    IN  [i \in 1..Len(unused) |->
            <<color_distance_ciede2000(color, unused[i][2]), unused[i][1]>>]

\* A faulty variant: "reverse=True", as in the sort of the colours.
SortedFirst_reverse(candidates) ==
    CHOOSE i \in 1..Len(candidates) :
        \A j \in 1..Len(candidates) :
            /\ candidates[i][1] >= candidates[j][1]
            /\ (j < i => candidates[j][1] < candidates[i][1])

\* A faulty variant: the sort puts the last of the nearest candidates first.
SortedFirst_last(candidates) ==
    CHOOSE i \in 1..Len(candidates) :
        \A j \in 1..Len(candidates) :
            /\ candidates[i][1] <= candidates[j][1]
            /\ (j > i => candidates[j][1] > candidates[i][1])

\* The index that a stable sort by distance puts first.
SortedFirst(candidates) ==
    CHOOSE i \in 1..Len(candidates) :
        \A j \in 1..Len(candidates) :
            /\ candidates[i][1] <= candidates[j][1]
            /\ (j < i => candidates[j][1] > candidates[i][1])

\* A faulty variant: with every block used, fall back to the nearest block.
find_best_unused_block_fallback(palette_blocks, palette_colors, color, used) ==
    LET candidates == Candidates(get_all_blocks(palette_blocks, palette_colors), color, used)
    IN  IF Len(candidates) = 0
        THEN find_closest_block(palette_blocks, palette_colors, color)
        ELSE candidates[SortedFirst(candidates)][2]

find_best_unused_block(palette_blocks, palette_colors, color, used) ==
    LET candidates == Candidates(get_all_blocks(palette_blocks, palette_colors), color, used)
    IN  IF Len(candidates) = 0 THEN None
        ELSE candidates[SortedFirst(candidates)][2]

(***************************************************************************)
(* The canvas.  Image.new('RGBA', size, (0, 0, 0, 0)) and                  *)
(* Image.paste(texture, (left, top)): a copy of the texture's pixels,      *)
(* clipped to the canvas, with no mask and no scaling.                     *)
(***************************************************************************)
Transparent == <<0, 0, 0, 0>>

NewImage(width, height) ==
    [size |-> <<width, height>>, data |-> [k \in 1..(width * height) |-> Transparent]]

\* A faulty variant: the box given as (top, left).
paste_swapped(canvas, texture, left, top) ==
    [size |-> canvas.size,
     data |-> [k \in 1..Len(canvas.data) |->
                 LET px == (k - 1) % canvas.size[1]
                     py == (k - 1) \div canvas.size[1]
                 IN  IF /\ top <= px /\ px < top + texture.size[1]
                        /\ left <= py /\ py < left + texture.size[2]
                     THEN getpixel(texture, px - top, py - left)
                     ELSE canvas.data[k]]]

paste(canvas, texture, left, top) ==
    [size |-> canvas.size,
     data |-> [k \in 1..Len(canvas.data) |->
                 LET px == (k - 1) % canvas.size[1]
                     py == (k - 1) \div canvas.size[1]
                 IN  IF /\ left <= px /\ px < left + texture.size[1]
                        /\ top <= py /\ py < top + texture.size[2]
                     THEN getpixel(texture, px - left, py - top)
                     ELSE canvas.data[k]]]

NoImage == [size |-> <<0, 0>>, data |-> <<>>]

(***************************************************************************)
(* The input files.  A bitmap repeats a pattern of PatternLen pixels in    *)
(* row-major order.  The pixels: the skin tone just below the transparency *)
(* threshold, at the threshold and opaque, and an opaque gray.             *)
(***************************************************************************)
PixelValues ==
    {Append(SkinTone, 127), Append(SkinTone, 128), Append(SkinTone, 255),
     Append(Gray, 255)}

PatternImage(width, height, pattern) ==
    [size |-> <<width, height>>,
     data |-> [k \in 1..(width * height) |-> pattern[((k - 1) % PatternLen) + 1]]]

Patterns == [1..PatternLen -> PixelValues]

\* Image.open reads the header only: a file opens when its header names an
\* image and its size, and decodes when its pixel data can be read as well.
CorruptFile == [opens |-> FALSE, decodes |-> FALSE, image |-> NoImage]

SkinSized == {PatternImage(SkinWidth, SkinHeight, p) : p \in Patterns}

CapeSized == {PatternImage(CapeWidth, CapeHeight, p) : p \in Patterns}

\* The files convert_skin is given: an unreadable one, every skin-sized
\* bitmap and one cape-sized bitmap.
SkinFiles ==
    {CorruptFile} \cup {[opens |-> TRUE, decodes |-> TRUE, image |-> i] : i \in SkinSized}
    \cup {[opens |-> TRUE, decodes |-> TRUE, image |-> CHOOSE i \in CapeSized : TRUE]}

\* The files convert_cape is given: an unreadable one, every cape-sized
\* bitmap and one skin-sized bitmap.
CapeFiles ==
    {CorruptFile} \cup {[opens |-> TRUE, decodes |-> TRUE, image |-> i] : i \in CapeSized}
    \cup {[opens |-> TRUE, decodes |-> TRUE, image |-> CHOOSE i \in SkinSized : TRUE]}

\* A faulty variant: without the clause "except InvalidDimensionsError: raise".
load_skin_raises_all_caught(file) ==
    IF ~file.opens THEN "InvalidImageError"
    ELSE IF file.image.size[1] # SkinWidth \/ file.image.size[2] # SkinHeight
         THEN "InvalidImageError"
         ELSE IF ~file.decodes THEN "InvalidImageError" ELSE "None"

\* SkinProcessor.load_skin: the name of the exception raised, or "None".
load_skin_raises(file) ==
    IF ~file.opens THEN "InvalidImageError"
    ELSE IF file.image.size[1] # SkinWidth \/ file.image.size[2] # SkinHeight
         THEN "InvalidDimensionsError"
         ELSE IF ~file.decodes THEN "InvalidImageError" ELSE "None"

\* A faulty variant: "and" for "or" in the test of the dimensions.
load_cape_raises_and(file) ==
    IF ~file.opens THEN "InvalidImageError"
    ELSE IF file.image.size[1] # CapeWidth /\ file.image.size[2] # CapeHeight
         THEN "InvalidDimensionsError"
         ELSE IF ~file.decodes THEN "InvalidImageError" ELSE "None"

\* CapeProcessor.load_cape: the name of the exception raised, or "None".
load_cape_raises(file) ==
    IF ~file.opens THEN "InvalidImageError"
    ELSE IF file.image.size[1] # CapeWidth \/ file.image.size[2] # CapeHeight
         THEN "InvalidDimensionsError"
         ELSE IF ~file.decodes THEN "InvalidImageError" ELSE "None"

\* The colours the metric is measured on: MaxLevel + 1 levels per channel.
Levels == {(255 * k) \div MaxLevel : k \in 0..MaxLevel}

MetricColors == {<<r, g, b>> : r \in Levels, g \in Levels, b \in Levels}

\* The pixels find_closest_block is called on directly.
ProbePixels ==
    {Append(c, a) : c \in {SkinTone, Gray, Tan, <<255, 0, 0>>}, a \in {0, 127, 128, 129, 255}}

(***************************************************************************)
(* The state.                                                              *)
(***************************************************************************)
VARIABLES
    directory,              \* the blocks directory as load_blocks found it
    blocks,                 \* BlockPalette.blocks: name -> texture
    average_colors,         \* BlockPalette.average_colors: name -> colour
    pc,                     \* where the program is
    ret,                    \* the last call that returned or raised
    skin,                   \* process_skin: the input image
    color_to_block_cache,   \* process_skin: rgb -> block name
    cape,                   \* process_cape: the input image
    unique_colors,          \* process_cape: the set of opaque colours
    color_frequency,        \* process_cape: rgb -> pixel count
    sorted_colors,          \* process_cape: the colours, most frequent first
    color_index,            \* process_cape: the assignment loop's position
    color_to_block,         \* process_cape: rgb -> block name
    used_blocks,            \* process_cape: the block names handed out
    pixel_index,            \* the render loop's position: y * width + x
    output,                 \* the canvas
    r_sum,                  \* _calculate_average_color: the accumulators,
    g_sum,                  \*   doubles in units of 2^-FracBits
    b_sum,
    weight_sum,
    files,                  \* the file system save_output writes to: path -> content
    matcher_palette         \* the palette the ColorMatcher was built on

palette_vars == <<directory, blocks, average_colors>>

skin_vars == <<skin, color_to_block_cache>>

cape_vars ==
    <<cape, unique_colors, color_frequency, sorted_colors, color_index,
      color_to_block, used_blocks>>

average_vars == <<r_sum, g_sum, b_sum, weight_sum>>

vars ==
    <<palette_vars, pc, ret, skin_vars, cape_vars, pixel_index, output, average_vars,
      files, matcher_palette>>

NoCall == [call |-> "none", arg |-> <<>>, value |-> <<>>, raised |-> "None"]

\* The locals of a process_skin or process_cape call that is not running.
SkinIdle == skin = NoImage /\ color_to_block_cache = <<>>

CapeIdle ==
    /\ cape = NoImage
    /\ unique_colors = {}
    /\ color_frequency = <<>>
    /\ sorted_colors = <<>>
    /\ color_index = 0
    /\ color_to_block = <<>>
    /\ used_blocks = {}

\* ColorMatcher(palette) keeps a reference to the palette: the matcher of
\* __main__ is built on the processor's own palette, and sees what is loaded
\* into it.  A matcher built on another BlockPalette has its own blocks and
\* average_colors.
SharedPalette == [shared |-> TRUE, blocks |-> <<>>, average_colors |-> <<>>]

\* self.color_matcher.block_palette.blocks
MatcherBlocks == IF matcher_palette.shared THEN blocks ELSE matcher_palette.blocks

\* self.color_matcher.block_palette.average_colors
MatcherColors ==
    IF matcher_palette.shared THEN average_colors ELSE matcher_palette.average_colors

\* The accumulators of a _calculate_average_color call that is not running.
AverageIdle == r_sum = <<>> /\ g_sum = <<>> /\ b_sum = <<>> /\ weight_sum = <<>>

Init ==
    /\ directory = [kind |-> "unread", listing |-> <<>>]
    /\ blocks = <<>>
    /\ average_colors = <<>>
    /\ pc = "init"
    /\ ret = NoCall
    /\ SkinIdle
    /\ CapeIdle
    /\ pixel_index = 0
    /\ output = NoImage
    /\ AverageIdle
    /\ files = <<>>
    /\ matcher_palette = SharedPalette

(***************************************************************************)
(* BlockPalette.load_blocks, called once on a new palette.                 *)
(***************************************************************************)
\* A faulty variant: the test "loaded_count == 0" left out.
load_blocks_raises_no_empty(dir, loaded_count) ==
    IF dir.kind # "dir" THEN "BlockDirectoryNotFoundError" ELSE "None"

load_blocks_raises(dir, loaded_count) ==
    IF dir.kind # "dir" THEN "BlockDirectoryNotFoundError"
    ELSE IF loaded_count = 0 THEN "BlockPaletteEmptyError"
    ELSE "None"

LoadBlocks(dir) ==
    /\ pc = "init"
    /\ LET st == LoadLoop(dir.listing, 1,
                          [blocks |-> blocks, average_colors |-> average_colors,
                           loaded_count |-> 0])
           raised == load_blocks_raises(dir, st.loaded_count)
       IN  /\ directory' = [kind |-> dir.kind,
                           listing |-> [i \in 1..Len(dir.listing) |-> dir.listing[i].filename]]
           /\ blocks' = IF dir.kind = "dir" THEN st.blocks ELSE blocks
           /\ average_colors' = IF dir.kind = "dir" THEN st.average_colors
                                ELSE average_colors
           /\ ret' = [call |-> "load_blocks", arg |-> <<>>, value |-> <<>>,
                      raised |-> raised]
           /\ pc' = IF raised = "None" THEN "ready" ELSE "exit"
    /\ UNCHANGED <<average_vars, files, matcher_palette>>
    /\ UNCHANGED <<skin_vars, cape_vars, pixel_index, output>>

(***************************************************************************)
(* SkinProcessor.convert_skin: load_skin, then process_skin pixel by       *)
(* pixel (y outer, x inner), then the return of the canvas.                *)
(***************************************************************************)
\* Image.new('RGBA', (1024, 1024), (0, 0, 0, 0))
SkinCanvas == NewImage(SkinWidth * BlockSize, SkinHeight * BlockSize)

\* Image.new('RGBA', (1024, 512), (0, 0, 0, 0))
CapeCanvas == NewImage(CapeWidth * BlockSize, CapeHeight * BlockSize)

\* Whether getpixel((x, y)) is inside the image (it raises IndexError if not).
InBounds(image, x, y) == x < image.size[1] /\ y < image.size[2]

\* A faulty variant: only alpha 0 is skipped.
IsTransparent_zero(pixel_color) == Len(pixel_color) >= 4 /\ pixel_color[4] = 0

\* "if len(pixel_color) >= 4 and pixel_color[3] < 128": the pixel is skipped.
IsTransparent(pixel_color) == Len(pixel_color) >= 4 /\ pixel_color[4] < 128

\* A call that returned (exception "None") or raised.
Raise(call, exception) ==
    [call |-> call, arg |-> <<>>, value |-> <<>>, raised |-> exception]

\* A faulty variant: no "except (...): raise" clause before "except Exception".
convert_raises_all_wrapped(exception) ==
    [raised |-> "ProcessingError", cause |-> exception]

\* The except clauses of convert_skin and convert_cape: what the call raises
\* when the exception is raised inside its try block.
convert_raises(exception) ==
    IF exception \in {"InvalidImageError", "InvalidDimensionsError", "OutputSaveError"}
    THEN [raised |-> exception, cause |-> "None"]
    ELSE [raised |-> "ProcessingError", cause |-> exception]

\* convert_skin or convert_cape ends with the exception raised inside it.
ConvertRaise(call, exception) ==
    [call |-> call, arg |-> <<>>, value |-> <<>>,
     raised |-> convert_raises(exception).raised,
     cause |-> convert_raises(exception).cause]

ConvertSkin(file) ==
    /\ pc = "ready"
    /\ IF load_skin_raises(file) # "None"
       THEN /\ ret' = ConvertRaise("convert_skin", load_skin_raises(file))
            /\ UNCHANGED <<pc, skin_vars, pixel_index, output>>
       ELSE /\ skin' = ConvertRGBA(file.image)
            /\ color_to_block_cache' = <<>>
            /\ output' = SkinCanvas
            /\ pixel_index' = 0
            /\ pc' = "process_skin"
            /\ ret' = Raise("load_skin", "None")
    /\ UNCHANGED <<average_vars, files, matcher_palette>>
    /\ UNCHANGED <<palette_vars, cape_vars>>

\* One iteration of the loop "for y in range(64): for x in range(64)".
\* getpixel outside the image raises IndexError and get_block_texture of a
\* name the processor's palette does not hold raises KeyError.
SkinPixel ==
    /\ pc = "process_skin"
    /\ pixel_index < SkinWidth * SkinHeight
    /\ LET x == pixel_index % SkinWidth
           y == pixel_index \div SkinWidth
           pixel_color == getpixel(skin, x, y)
           rgb == RGB(pixel_color)
           block_name ==
               IF DictHas(color_to_block_cache, rgb)
               THEN DictGet(color_to_block_cache, rgb)
               ELSE find_closest_block(MatcherBlocks, MatcherColors, pixel_color)
           pasted == ~IsTransparent(pixel_color) /\ block_name # None
           exception ==
               IF ~InBounds(skin, x, y) THEN "IndexError"
               ELSE IF pasted /\ ~DictHas(blocks, block_name) THEN "KeyError"
               ELSE "None"
       IN  IF exception # "None"
           THEN /\ ret' = ConvertRaise("convert_skin", exception)
                /\ skin' = NoImage
                /\ color_to_block_cache' = <<>>
                /\ output' = NoImage
                /\ pixel_index' = 0
                /\ pc' = "ready"
           ELSE /\ color_to_block_cache' =
                      IF IsTransparent(pixel_color) \/ DictHas(color_to_block_cache, rgb)
                      THEN color_to_block_cache
                      ELSE DictPut(color_to_block_cache, rgb, block_name)
                /\ output' =
                      IF pasted
                      THEN paste(output, get_block_texture(blocks, block_name),
                                 x * BlockSize, y * BlockSize)
                      ELSE output
                /\ pixel_index' = pixel_index + 1
                /\ UNCHANGED <<pc, ret, skin>>
    /\ UNCHANGED <<average_vars, files, matcher_palette>>
    /\ UNCHANGED <<palette_vars, cape_vars>>

\* "return output"
SkinReturn ==
    /\ pc = "process_skin"
    /\ pixel_index = SkinWidth * SkinHeight
    /\ ret' = Raise("process_skin", "None")
    /\ skin' = NoImage
    /\ color_to_block_cache' = <<>>
    /\ output' = NoImage
    /\ pixel_index' = 0
    /\ pc' = "ready"
    /\ UNCHANGED <<average_vars, files, matcher_palette>>
    /\ UNCHANGED <<palette_vars, cape_vars>>

(***************************************************************************)
(* CapeProcessor.convert_cape: load_cape, then process_cape.               *)
(***************************************************************************)
RECURSIVE CountColors(_, _, _)
\* color_frequency after the pixels 0..k-1 of the scan (y outer, x inner).
CountColors(image, width, k) ==
    IF k = 0 THEN <<>>
    ELSE LET before == CountColors(image, width, k - 1)
             pixel_color == getpixel(image, (k - 1) % width, (k - 1) \div width)
             rgb == RGB(pixel_color)
         IN  IF Len(pixel_color) >= 4 /\ pixel_color[4] >= 128
             THEN DictPut(before, rgb,
                          (IF DictHas(before, rgb) THEN DictGet(before, rgb) ELSE 0) + 1)
             ELSE before

\* A faulty variant: "reverse=True" left out, the rarest colour first.
SortedOrders_ascending(colors, frequency) ==
    {s \in [1..Cardinality(colors) -> colors] :
        /\ \A i, j \in 1..Cardinality(colors) : i # j => s[i] # s[j]
        /\ \A i, j \in 1..Cardinality(colors) :
              i < j => DictGet(frequency, s[i]) <= DictGet(frequency, s[j])}

\* sorted(unique_colors, key=lambda c: color_frequency[c], reverse=True):
\* the sort is stable over the iteration order of a set, which is any order.
SortedOrders(colors, frequency) ==
    {s \in [1..Cardinality(colors) -> colors] :
        /\ \A i, j \in 1..Cardinality(colors) : i # j => s[i] # s[j]
        /\ \A i, j \in 1..Cardinality(colors) :
              i < j => DictGet(frequency, s[i]) >= DictGet(frequency, s[j])}

ConvertCape(file) ==
    /\ pc = "ready"
    /\ IF load_cape_raises(file) # "None"
       THEN /\ ret' = ConvertRaise("convert_cape", load_cape_raises(file))
            /\ UNCHANGED <<pc, cape_vars>>
       ELSE IF ~InBounds(file.image, CapeWidth - 1, CapeHeight - 1)
       THEN /\ ret' = ConvertRaise("convert_cape", "IndexError")
            /\ UNCHANGED <<pc, cape_vars>>
       ELSE LET image == ConvertRGBA(file.image)
                frequency == CountColors(image, CapeWidth, CapeWidth * CapeHeight)
            IN  /\ cape' = image
                /\ unique_colors' = SeqToSet(DictKeys(frequency))
                /\ color_frequency' = frequency
                /\ sorted_colors' \in SortedOrders(SeqToSet(DictKeys(frequency)), frequency)
                /\ color_index' = 1
                /\ color_to_block' = <<>>
                /\ used_blocks' = {}
                /\ pc' = "assign"
                /\ ret' = Raise("load_cape", "None")
    /\ UNCHANGED <<average_vars, files, matcher_palette>>
    /\ UNCHANGED <<palette_vars, skin_vars, pixel_index, output>>

\* One iteration of the loop "for color in sorted_colors".
CapeAssign ==
    /\ pc = "assign"
    /\ color_index <= Len(sorted_colors)
    /\ LET color == sorted_colors[color_index]
           best_block == find_best_unused_block(blocks, average_colors, color, used_blocks)
       IN  /\ color_to_block' = IF best_block # None
                                THEN DictPut(color_to_block, color, best_block)
                                ELSE color_to_block
           /\ used_blocks' = IF best_block # None THEN used_blocks \cup {best_block}
                             ELSE used_blocks
    /\ color_index' = color_index + 1
    /\ UNCHANGED <<average_vars, files, matcher_palette>>
    /\ UNCHANGED <<palette_vars, pc, ret, skin_vars, cape, unique_colors,
                   color_frequency, sorted_colors, pixel_index, output>>

\* The assignment loop is over: the canvas is created.
CapeStartRender ==
    /\ pc = "assign"
    /\ color_index > Len(sorted_colors)
    /\ output' = CapeCanvas
    /\ pixel_index' = 0
    /\ pc' = "process_cape"
    /\ UNCHANGED <<average_vars, files, matcher_palette>>
    /\ UNCHANGED <<palette_vars, ret, skin_vars, cape_vars>>

\* One iteration of the loop "for y in range(32): for x in range(64)".
CapePixel ==
    /\ pc = "process_cape"
    /\ pixel_index < CapeWidth * CapeHeight
    /\ LET x == pixel_index % CapeWidth
           y == pixel_index \div CapeWidth
           pixel_color == getpixel(cape, x, y)
           rgb == RGB(pixel_color)
           block_name == IF DictHas(color_to_block, rgb) THEN DictGet(color_to_block, rgb)
                         ELSE None
       IN  output' = IF IsTransparent(pixel_color) \/ block_name = None
                     THEN output
                     ELSE paste(output, get_block_texture(blocks, block_name),
                                x * BlockSize, y * BlockSize)
    /\ pixel_index' = pixel_index + 1
    /\ UNCHANGED <<average_vars, files, matcher_palette>>
    /\ UNCHANGED <<palette_vars, pc, ret, skin_vars, cape_vars>>

\* "return output"
CapeReturn ==
    /\ pc = "process_cape"
    /\ pixel_index = CapeWidth * CapeHeight
    /\ ret' = Raise("process_cape", "None")
    /\ cape' = NoImage
    /\ unique_colors' = {}
    /\ color_frequency' = <<>>
    /\ sorted_colors' = <<>>
    /\ color_index' = 0
    /\ color_to_block' = <<>>
    /\ used_blocks' = {}
    /\ output' = NoImage
    /\ pixel_index' = 0
    /\ pc' = "ready"
    /\ UNCHANGED <<average_vars, files, matcher_palette>>
    /\ UNCHANGED <<palette_vars, skin_vars>>

LoadStep == \E dir \in Directories : LoadBlocks(dir)

SkinStep ==
    \/ \E file \in SkinFiles : ConvertSkin(file)
    \/ SkinPixel
    \/ SkinReturn

CapeStep ==
    \/ \E file \in CapeFiles : ConvertCape(file)
    \/ CapeAssign
    \/ CapeStartRender
    \/ CapePixel
    \/ CapeReturn

Next == LoadStep \/ SkinStep \/ CapeStep

\* The whole program: one palette, any sequence of conversions.
Spec == Init /\ [][Next]_vars

\* One palette and a SkinProcessor.
SpecSkin == Init /\ [][LoadStep \/ SkinStep]_vars

\* One palette and a CapeProcessor.
SpecCape == Init /\ [][LoadStep \/ CapeStep]_vars

(***************************************************************************)
(* The metric on its own: ColorMatcher.color_distance_ciede2000 is static  *)
(* and needs no palette.  The two colours are drawn first, then measured.  *)
(***************************************************************************)
MetricInit ==
    /\ directory = [kind |-> "unread", listing |-> <<>>]
    /\ blocks = <<>>
    /\ average_colors = <<>>
    /\ pc = "init"
    /\ \E color1, color2 \in MetricColors :
          ret = [call |-> "pending", arg |-> <<color1, color2>>, value |-> 0,
                 raised |-> "None"]
    /\ SkinIdle
    /\ CapeIdle
    /\ pixel_index = 0
    /\ output = NoImage
    /\ AverageIdle
    /\ files = <<>>
    /\ matcher_palette = SharedPalette

ColorDistance ==
    /\ ret.call = "pending"
    /\ ret' = [call |-> "color_distance_ciede2000", arg |-> ret.arg,
               value |-> color_distance_ciede2000(ret.arg[1], ret.arg[2]),
               raised |-> "None"]
    /\ UNCHANGED <<average_vars, files, matcher_palette>>
    /\ UNCHANGED <<palette_vars, pc, skin_vars, cape_vars, pixel_index, output>>

MetricNext == ColorDistance

SpecMetric == MetricInit /\ [][MetricNext]_vars

(***************************************************************************)
(* The matcher on its own: a palette as load_blocks left it (also after a  *)
(* load that raised), and one call of find_closest_block.                  *)
(***************************************************************************)
MatchInit ==
    /\ \E dir \in Directories :
          LET st == LoadLoop(dir.listing, 1,
                             [blocks |-> <<>>, average_colors |-> <<>>, loaded_count |-> 0])
          IN  /\ directory = [kind |-> dir.kind,
                              listing |-> [i \in 1..Len(dir.listing) |->
                                              dir.listing[i].filename]]
              /\ blocks = st.blocks
              /\ average_colors = st.average_colors
    /\ pc = "ready"
    /\ \E pixel_color \in ProbePixels :
          ret = [call |-> "pending", arg |-> pixel_color, value |-> <<>>, raised |-> "None"]
    /\ SkinIdle
    /\ CapeIdle
    /\ pixel_index = 0
    /\ output = NoImage
    /\ AverageIdle
    /\ files = <<>>
    /\ matcher_palette = SharedPalette

FindClosestBlock ==
    /\ ret.call = "pending"
    /\ ret' = [call |-> "find_closest_block", arg |-> ret.arg,
               value |-> FindClosestScan(blocks, average_colors, ret.arg),
               raised |-> "None"]
    /\ UNCHANGED <<average_vars, files, matcher_palette>>
    /\ UNCHANGED <<palette_vars, pc, skin_vars, cape_vars, pixel_index, output>>

MatchNext == FindClosestBlock

SpecMatch == MatchInit /\ [][MatchNext]_vars

(***************************************************************************)
(* Definitions the properties below are stated with.                       *)
(***************************************************************************)
\* The distinct colours of the opaque (alpha >= 128) pixels of an image.
OpaqueColors(image) ==
    {RGB(image.data[k]) : k \in {n \in 1..Len(image.data) : image.data[n][4] >= 128}}

\* The block names a colour -> block dict maps to.
DictValues(d) == {d[i][2] : i \in 1..Len(d)}

Min2(a, b) == IF a <= b THEN a ELSE b

\* The assignment loop of process_cape has finished.
AssignmentFinal ==
    \/ pc = "assign" /\ color_index > Len(sorted_colors)
    \/ pc = "process_cape"

\* The render loop of process_skin, of process_cape, has finished.
SkinRendered == pc = "process_skin" /\ pixel_index = SkinWidth * SkinHeight

CapeRendered == pc = "process_cape" /\ pixel_index = CapeWidth * CapeHeight

\* The palette entry (index) find_closest_block returned.
IndexOfBlock(block_name) == CHOOSE i \in 1..Len(blocks) : blocks[i][1] = block_name

\* The distance from a pixel's colour to palette entry i.
DistanceTo(pixel_color, i) ==
    color_distance_ciede2000(RGB(pixel_color), average_colors[IndexOfBlock(blocks[i][1])][2])

\* The output block of source pixel (x, y) is fully transparent.
BlockTransparent(canvas, x, y) ==
    \A i, j \in 0..(BlockSize - 1) :
        getpixel(canvas, x * BlockSize + i, y * BlockSize + j) = Transparent

\* The output block of source pixel (x, y) is the texture, pixel for pixel.
BlockIsTexture(canvas, x, y, texture) ==
    \A i, j \in 0..(BlockSize - 1) :
        getpixel(canvas, x * BlockSize + i, y * BlockSize + j) = getpixel(texture, i, j)

\* Every texture of the palette is BlockSize x BlockSize; none is larger.
AllTexturesBlockSized ==
    \A i \in 1..Len(blocks) : blocks[i][2].size = <<BlockSize, BlockSize>>

NoTextureOversized ==
    \A i \in 1..Len(blocks) :
        blocks[i][2].size[1] <= BlockSize /\ blocks[i][2].size[2] <= BlockSize

(***************************************************************************)
(* C1.  Unique mode: after every iteration of the assignment loop, and so  *)
(* in the final assignment, no block name is the value of two colours, and *)
(* used_blocks is exactly the set of the mapping's values.                 *)
(***************************************************************************)
C1_UniqueInjective ==
    /\ \A i, j \in 1..Len(color_to_block) :
          i # j => color_to_block[i][2] # color_to_block[j][2]
    /\ used_blocks = DictValues(color_to_block)

\* Two colours have been given two blocks, the loop still running or just over.
C1_Witness ==
    /\ pc = "assign"
    /\ Len(color_to_block) = 2
    /\ Cardinality(used_blocks) = 2

(***************************************************************************)
(* C2.  Unique mode: the number of distinct opaque colours that receive a  *)
(* block is min(number of distinct opaque colours, number of blocks), and  *)
(* only opaque colours of the bitmap are mapped.                           *)
(***************************************************************************)
C2_MappedCount ==
    AssignmentFinal =>
        /\ Len(color_to_block) = Min2(Cardinality(OpaqueColors(cape)), Len(blocks))
        /\ SeqToSet(DictKeys(color_to_block)) \subseteq OpaqueColors(cape)
        /\ Cardinality(SeqToSet(DictKeys(color_to_block))) = Len(color_to_block)

\* The colours outnumber the blocks: one block, two colours, one mapped.
C2_Witness ==
    /\ AssignmentFinal
    /\ Len(blocks) = 1
    /\ Cardinality(OpaqueColors(cape)) = 2
    /\ Len(color_to_block) = 1

(***************************************************************************)
(* C3.  Nearest mode: for an opaque pixel and a non-empty palette,         *)
(* find_closest_block returns a block of the palette, and no palette entry *)
(* is strictly nearer to the pixel's colour than the block returned.       *)
(***************************************************************************)
C3_ClosestIsMinimal ==
    (ret.call = "find_closest_block" /\ ~(ret.arg[4] < 128) /\ Len(blocks) > 0) =>
        /\ DictHas(blocks, ret.value.closest_block)
        /\ \A i \in 1..Len(blocks) :
              DistanceTo(ret.arg, i)
                 >= DistanceTo(ret.arg, IndexOfBlock(ret.value.closest_block))

\* The block returned is not the first of the palette: the first is farther.
C3_Witness ==
    /\ ret.call = "find_closest_block"
    /\ ret.arg[4] >= 128
    /\ Len(blocks) = 2
    /\ ret.value.closest_block = blocks[2][1]
    /\ DistanceTo(ret.arg, 1) > DistanceTo(ret.arg, 2)

(***************************************************************************)
(* C4.  Nearest mode: of several palette entries at the same least         *)
(* distance, find_closest_block returns the first in the order of          *)
(* get_all_blocks: no entry before the one returned is as near.            *)
(***************************************************************************)
C4_FirstOfTies ==
    (ret.call = "find_closest_block" /\ ~(ret.arg[4] < 128) /\ Len(blocks) > 0) =>
        \A i \in 1..Len(blocks) :
            i < IndexOfBlock(ret.value.closest_block) =>
                DistanceTo(ret.arg, i)
                   # DistanceTo(ret.arg, IndexOfBlock(ret.value.closest_block))

\* Two entries tie at a least distance that is not 0; the first is returned.
C4_Witness ==
    /\ ret.call = "find_closest_block"
    /\ ret.arg[4] >= 128
    /\ Len(blocks) = 2
    /\ DistanceTo(ret.arg, 1) = DistanceTo(ret.arg, 2)
    /\ DistanceTo(ret.arg, 1) > 0
    /\ ret.value.closest_block = blocks[1][1]

(***************************************************************************)
(* C5.  For a non-empty palette and an RGBA pixel, find_closest_block      *)
(* returns None exactly when alpha < 128, and then without asking the      *)
(* palette for its blocks.                                                 *)
(***************************************************************************)
C5_NoneIffTransparent ==
    (ret.call = "find_closest_block" /\ Len(blocks) > 0) =>
        /\ (ret.value.closest_block = None) <=> (ret.arg[4] < 128)
        /\ ret.value.closest_block = None =>
              (~ret.value.consulted /\ ret.value.scanned = 0)

\* Alpha exactly 128 gets a block.
C5_Witness ==
    /\ ret.call = "find_closest_block"
    /\ Len(blocks) > 0
    /\ ret.arg[4] = 128
    /\ ret.value.closest_block # None
    /\ ret.value.consulted

(***************************************************************************)
(* C6.  color_distance_ciede2000(c, c) = 0 for every colour c: the base    *)
(* term and the warmth, saturation and gray penalties are all 0.           *)
(***************************************************************************)
C6_DistanceToSelfZero ==
    (ret.call = "color_distance_ciede2000" /\ ret.arg[1] = ret.arg[2]) =>
        /\ ret.value = 0
        /\ BaseDistance(ret.arg[1], ret.arg[2]) = 0
        /\ warmth_penalty(ret.arg[1], ret.arg[2]) = 0
        /\ saturation_penalty(ret.arg[1], ret.arg[2]) = 0
        /\ gray_penalty(ret.arg[1], ret.arg[2]) = 0

\* A colour of medium brightness and some saturation, measured against itself:
\* the source half of the gray test holds.
C6_Witness ==
    /\ ret.call = "color_distance_ciede2000"
    /\ ret.arg[1] = ret.arg[2]
    /\ 150 < Brightness3(ret.arg[1]) /\ Brightness3(ret.arg[1]) < 600
    /\ Saturation(ret.arg[1]) > 15
    /\ Warmth2(ret.arg[1]) < 20

C9_SkippedStayTransparent ==
    NoTextureOversized =>
        /\ SkinRendered =>
              \A x \in 0..(SkinWidth - 1), y \in 0..(SkinHeight - 1) :
                  getpixel(skin, x, y)[4] < 128 => BlockTransparent(output, x, y)
        /\ CapeRendered =>
              \A x \in 0..(CapeWidth - 1), y \in 0..(CapeHeight - 1) :
                  (\/ getpixel(cape, x, y)[4] < 128
                   \/ ~DictHas(color_to_block, RGB(getpixel(cape, x, y))))
                      => BlockTransparent(output, x, y)

\* The same for every palette load_blocks accepts.
C9_AnyPalette ==
    /\ SkinRendered =>
          \A x \in 0..(SkinWidth - 1), y \in 0..(SkinHeight - 1) :
              getpixel(skin, x, y)[4] < 128 => BlockTransparent(output, x, y)
    /\ CapeRendered =>
          \A x \in 0..(CapeWidth - 1), y \in 0..(CapeHeight - 1) :
              (\/ getpixel(cape, x, y)[4] < 128
               \/ ~DictHas(color_to_block, RGB(getpixel(cape, x, y))))
                  => BlockTransparent(output, x, y)

\* A cape rendered with a pasted block, a transparent pixel whose colour has a
\* block, and an opaque pixel whose colour has none.
C9_Witness ==
    /\ CapeRendered
    /\ NoTextureOversized
    /\ \E k \in 1..Len(output.data) : output.data[k] # Transparent
    /\ \E k \in 1..Len(cape.data) :
          cape.data[k][4] < 128 /\ DictHas(color_to_block, RGB(cape.data[k]))
    /\ \E k \in 1..Len(cape.data) :
          cape.data[k][4] >= 128 /\ ~DictHas(color_to_block, RGB(cape.data[k]))

(***************************************************************************)
(* C10.  Nearest mode, every texture BlockSize x BlockSize: once           *)
(* process_skin has rendered the bitmap, the block of every opaque pixel   *)
(* is, pixel for pixel, the texture of the block find_closest_block        *)
(* returns for that pixel.                                                 *)
(***************************************************************************)
C10_BlockIsClosestTexture ==
    (SkinRendered /\ AllTexturesBlockSized) =>
        \A x \in 0..(SkinWidth - 1), y \in 0..(SkinHeight - 1) :
            getpixel(skin, x, y)[4] >= 128 =>
                BlockIsTexture(output, x, y,
                    get_block_texture(blocks,
                        find_closest_block(blocks, average_colors, getpixel(skin, x, y))))

\* A skin rendered with two textures, next to a transparent pixel.
C10_Witness ==
    /\ SkinRendered
    /\ AllTexturesBlockSized
    /\ Len(blocks) = 2
    /\ \E k \in 1..Len(skin.data) : skin.data[k][4] < 128
    /\ \E k, n \in 1..Len(skin.data) :
          /\ skin.data[k][4] >= 128 /\ skin.data[n][4] >= 128
          /\ find_closest_block(blocks, average_colors, skin.data[k])
                # find_closest_block(blocks, average_colors, skin.data[n])

(***************************************************************************)
(* BlockPalette.load_blocks on its own, over directories that also hold    *)
(* files that do not decode, files that are not named *.png, and files     *)
(* whose names differ in the extension only.  The directory is kept, with  *)
(* its files, as the argument of the call.                                 *)
(***************************************************************************)
UnreadableFile(filename) ==
    [filename |-> filename, decodes |-> FALSE, image |-> [size |-> <<0, 0>>, data |-> <<>>]]

\* stone.PNG: another texture that is named "stone" as a block.
StoneUpperFile == TextureFile(<<"stone", "PNG">>, Tan, BlockSize, TRUE)

\* stone.Png: not an image.
StoneBrokenFile == UnreadableFile(<<"stone", "Png">>)

\* dirt.jpg: an image that is not named *.png.
DirtJpgFile == TextureFile(<<"dirt", "jpg">>, Tan, BlockSize, FALSE)

\* notes.txt: neither.
NotesFile == UnreadableFile(<<"notes", "txt">>)

LoadFiles ==
    {StoneFile, SandFile, AndesiteFile, StoneUpperFile, StoneBrokenFile, DirtJpgFile,
     NotesFile}

LoadListings ==
    UNION {{l \in [1..n -> LoadFiles] : \A i, j \in 1..n : i # j => l[i] # l[j]}
           : n \in 0..(MaxFiles + 1)}

LoadDirectories ==
    {[kind |-> "missing", listing |-> <<>>], [kind |-> "file", listing |-> <<>>]}
    \cup {[kind |-> "dir", listing |-> l] : l \in LoadListings}

LoadInit ==
    /\ directory = [kind |-> "unread", listing |-> <<>>]
    /\ blocks = <<>>
    /\ average_colors = <<>>
    /\ pc = "init"
    /\ \E dir \in LoadDirectories :
          ret = [call |-> "pending", arg |-> dir, value |-> <<>>, raised |-> "None"]
    /\ SkinIdle
    /\ CapeIdle
    /\ pixel_index = 0
    /\ output = NoImage
    /\ AverageIdle
    /\ files = <<>>
    /\ matcher_palette = SharedPalette

\* load_blocks() on the directory of the call.
LoadBlocksCall ==
    /\ pc = "init"
    /\ ret.call = "pending"
    /\ LET dir == ret.arg
           st == LoadLoop(dir.listing, 1,
                          [blocks |-> blocks, average_colors |-> average_colors,
                           loaded_count |-> 0])
           raised == load_blocks_raises(dir, st.loaded_count)
       IN  /\ directory' = [kind |-> dir.kind,
                           listing |-> [i \in 1..Len(dir.listing) |-> dir.listing[i].filename]]
           /\ blocks' = IF dir.kind = "dir" THEN st.blocks ELSE blocks
           /\ average_colors' = IF dir.kind = "dir" THEN st.average_colors
                                ELSE average_colors
           /\ ret' = [call |-> "load_blocks", arg |-> dir, value |-> <<>>,
                      raised |-> raised]
           /\ pc' = IF raised = "None" THEN "ready" ELSE "exit"
    /\ UNCHANGED <<average_vars, files, matcher_palette>>
    /\ UNCHANGED <<skin_vars, cape_vars, pixel_index, output>>

LoadNext == LoadBlocksCall

SpecLoad == LoadInit /\ [][LoadNext]_vars

(***************************************************************************)
(* Definitions the properties of load_blocks are stated with.              *)
(***************************************************************************)
\* The name ends in ".png", in any case of the letters the model uses.
PngNamed(filename) ==
    Len(filename) >= 2 /\ filename[Len(filename)] \in {"png", "PNG", "Png"}

\* The entry becomes a swatch: it is named *.png and it decodes.
Loadable(file) == PngNamed(file.filename) /\ file.decodes

\* load_blocks has returned or raised, on the directory ret.arg.
Loaded == ret.call = "load_blocks"

\* The entries of the directory that become swatches, in enumeration order.
LoadableEntries == SelectSeq(ret.arg.listing, Loadable)

\* The last loadable entry of the directory that gives the block name.
LastEntryNamed(block_name) ==
    LET l == LoadableEntries
    IN  l[CHOOSE i \in 1..Len(l) :
            /\ SplitExtRoot(l[i].filename) = block_name
            /\ \A j \in (i + 1)..Len(l) : SplitExtRoot(l[j].filename) # block_name]

(***************************************************************************)
(* C11.  load_blocks has exactly three outcomes: BlockDirectoryNotFound-   *)
(* Error exactly when the path is missing or not a directory; otherwise    *)
(* BlockPaletteEmptyError exactly when no entry became a swatch; otherwise *)
(* a normal return with at least one swatch in the palette.                *)
(***************************************************************************)
C11_LoadOutcomes ==
    Loaded =>
        /\ ret.raised \in {"BlockDirectoryNotFoundError", "BlockPaletteEmptyError", "None"}
        /\ (ret.raised = "BlockDirectoryNotFoundError")
              <=> (ret.arg.kind \in {"missing", "file"})
        /\ (ret.raised = "BlockPaletteEmptyError")
              <=> (ret.arg.kind = "dir" /\ Len(LoadableEntries) = 0)
        /\ (ret.raised = "None") <=> (ret.arg.kind = "dir" /\ Len(LoadableEntries) > 0)
        /\ ret.raised = "None" => (Len(blocks) >= 1 /\ Len(average_colors) = Len(blocks))
        /\ ret.raised = "BlockPaletteEmptyError" => Len(blocks) = 0

\* A directory that holds files, none of which becomes a swatch.
C11_Witness ==
    /\ Loaded
    /\ ret.raised = "BlockPaletteEmptyError"
    /\ Len(ret.arg.listing) >= 2
    /\ \E i \in 1..Len(ret.arg.listing) : ret.arg.listing[i].decodes

(***************************************************************************)
(* C12.  An entry that fails to decode is skipped: no block name comes     *)
(* from such an entry alone, the outcome and the palette are those of the  *)
(* directory without the failing entries, wherever they stand in the       *)
(* enumeration.                                                            *)
(***************************************************************************)
C12_DecodeFailureSkipped ==
    (Loaded /\ ret.arg.kind = "dir") =>
        LET clean == SelectSeq(ret.arg.listing, LAMBDA f : f.decodes)
            st == LoadLoop(clean, 1,
                           [blocks |-> <<>>, average_colors |-> <<>>, loaded_count |-> 0])
        IN  /\ blocks = st.blocks
            /\ average_colors = st.average_colors
            /\ ret.raised = load_blocks_raises(ret.arg, st.loaded_count)
            /\ \A i \in 1..Len(blocks) :
                  \E j \in 1..Len(LoadableEntries) :
                      SplitExtRoot(LoadableEntries[j].filename) = blocks[i][1]
            /\ \A j \in 1..Len(LoadableEntries) :
                  DictHas(blocks, SplitExtRoot(LoadableEntries[j].filename))

\* A *.png file that does not decode stands between two that do; both load.
C12_Witness ==
    /\ Loaded
    /\ Len(ret.arg.listing) = 3
    /\ Loadable(ret.arg.listing[1])
    /\ ret.arg.listing[2] = StoneBrokenFile
    /\ Loadable(ret.arg.listing[3])
    /\ Len(blocks) = 2
    /\ ret.raised = "None"

(***************************************************************************)
(* C13.  After a successful load, for each entry that is named *.png (in   *)
(* any case) and decodes, the palette has a texture and a colour under the *)
(* entry's name with the extension stripped.                               *)
(***************************************************************************)
C13_PngEntriesNamed ==
    (Loaded /\ ret.raised = "None") =>
        \A i \in 1..Len(ret.arg.listing) :
            (ret.arg.listing[i].decodes /\ PngNamed(ret.arg.listing[i].filename)) =>
                /\ DictHas(blocks, SplitExtRoot(ret.arg.listing[i].filename))
                /\ DictHas(average_colors, SplitExtRoot(ret.arg.listing[i].filename))

\* The same for each entry that decodes, whatever its name.
C13_AnyDecodableEntry ==
    (Loaded /\ ret.raised = "None") =>
        \A i \in 1..Len(ret.arg.listing) :
            ret.arg.listing[i].decodes =>
                /\ DictHas(blocks, SplitExtRoot(ret.arg.listing[i].filename))
                /\ DictHas(average_colors, SplitExtRoot(ret.arg.listing[i].filename))

\* andesite.PNG is loaded as andesite, next to a file that is not.
C13_Witness ==
    /\ Loaded
    /\ ret.raised = "None"
    /\ \E i \in 1..Len(ret.arg.listing) : ret.arg.listing[i] = AndesiteFile
    /\ \E i \in 1..Len(ret.arg.listing) : ~Loadable(ret.arg.listing[i])
    /\ DictHas(blocks, <<"andesite">>)

(***************************************************************************)
(* C14.  The palette holds each block name once, and a name's texture and  *)
(* colour are those of the last entry of that name that decodes: of two    *)
(* such entries the later wins, and a later entry of the name that does    *)
(* not decode changes nothing.                                             *)
(***************************************************************************)
C14_LastWriteWins ==
    (Loaded /\ ret.arg.kind = "dir") =>
        /\ \A i, j \in 1..Len(blocks) : i # j => blocks[i][1] # blocks[j][1]
        /\ \A i, j \in 1..Len(average_colors) :
              i # j => average_colors[i][1] # average_colors[j][1]
        /\ \A i \in 1..Len(blocks) :
              LET texture == ConvertRGBA(LastEntryNamed(blocks[i][1]).image)
              IN  /\ blocks[i][2] = texture
                  /\ DictGet(average_colors, blocks[i][1]) = calculate_average_color(texture)

\* stone.png, then stone.PNG, then stone.Png that does not decode: the block
\* stone is the texture of stone.PNG.
C14_Witness ==
    /\ Loaded
    /\ ret.arg.listing = <<StoneFile, StoneUpperFile, StoneBrokenFile>>
    /\ Len(blocks) = 1
    /\ DictGet(average_colors, <<"stone">>) = Tan

(***************************************************************************)
(* The palette's readers, called in any order once load_blocks has         *)
(* returned: get_all_blocks, get_block_texture, find_closest_block, and    *)
(* the two processors on a few bitmaps.                                    *)
(***************************************************************************)
\* The names get_block_texture is asked for: those of the files, and one
\* that no file gives.
BlockNames == {SplitExtRoot(f.filename) : f \in BlockFiles} \cup {<<"bedrock">>}

\* The pixels find_closest_block is asked for.
FramePixels == {Append(SkinTone, 255), Append(Gray, 128), Append(Tan, 127)}

\* The bitmaps the processors are given: a gray pixel, then a skin tone one.
FramePatterns ==
    {pattern \in Patterns :
        pattern[1] = Append(Gray, 255) /\ pattern[2] = Append(SkinTone, 128)}

FrameSkinFiles ==
    {[opens |-> TRUE, decodes |-> TRUE, image |-> PatternImage(SkinWidth, SkinHeight, pattern)]
        : pattern \in FramePatterns}

FrameCapeFiles ==
    {[opens |-> TRUE, decodes |-> TRUE, image |-> PatternImage(CapeWidth, CapeHeight, pattern)]
        : pattern \in FramePatterns}

\* "return [(name, self.average_colors[name]) for name in self.blocks.keys()]"
GetAllBlocks ==
    /\ pc = "ready"
    /\ ret' = [call |-> "get_all_blocks", arg |-> <<>>,
               value |-> get_all_blocks(blocks, average_colors), raised |-> "None"]
    /\ UNCHANGED <<average_vars, files, matcher_palette>>
    /\ UNCHANGED <<palette_vars, pc, skin_vars, cape_vars, pixel_index, output>>

\* A faulty variant: "return self.blocks.pop(block_name)".
GetBlockTexture_pop(block_name) ==
    /\ pc = "ready"
    /\ IF DictHas(blocks, block_name)
       THEN /\ ret' = [call |-> "get_block_texture", arg |-> block_name,
                       value |-> get_block_texture(blocks, block_name), raised |-> "None"]
            /\ blocks' = SelectSeq(blocks, LAMBDA b : b[1] # block_name)
       ELSE /\ ret' = [call |-> "get_block_texture", arg |-> block_name,
                       value |-> <<>>, raised |-> "KeyError"]
            /\ blocks' = blocks
    /\ UNCHANGED <<average_vars, files, matcher_palette>>
    /\ UNCHANGED <<directory, average_colors, pc, skin_vars, cape_vars, pixel_index, output>>

\* "return self.blocks[block_name]": the texture, or KeyError.
GetBlockTexture(block_name) ==
    /\ pc = "ready"
    /\ ret' = IF DictHas(blocks, block_name)
              THEN [call |-> "get_block_texture", arg |-> block_name,
                    value |-> get_block_texture(blocks, block_name), raised |-> "None"]
              ELSE [call |-> "get_block_texture", arg |-> block_name,
                    value |-> <<>>, raised |-> "KeyError"]
    /\ UNCHANGED <<average_vars, files, matcher_palette>>
    /\ UNCHANGED <<palette_vars, pc, skin_vars, cape_vars, pixel_index, output>>

\* find_closest_block(pixel_color), called by a client of the matcher.
CallFindClosestBlock(pixel_color) ==
    /\ pc = "ready"
    /\ ret' = [call |-> "find_closest_block", arg |-> pixel_color,
               value |-> FindClosestScan(blocks, average_colors, pixel_color),
               raised |-> "None"]
    /\ UNCHANGED <<average_vars, files, matcher_palette>>
    /\ UNCHANGED <<palette_vars, pc, skin_vars, cape_vars, pixel_index, output>>

FrameNext ==
    \/ LoadStep
    \/ GetAllBlocks
    \/ \E block_name \in BlockNames : GetBlockTexture(block_name)
    \/ \E pixel_color \in FramePixels : CallFindClosestBlock(pixel_color)
    \/ \E file \in FrameSkinFiles : ConvertSkin(file)
    \/ SkinPixel
    \/ SkinReturn
    \/ \E file \in FrameCapeFiles : ConvertCape(file)
    \/ CapeAssign
    \/ CapeStartRender
    \/ CapePixel
    \/ CapeReturn

SpecFrame == Init /\ [][FrameNext]_vars

(***************************************************************************)
(* C15.  Once load_blocks has returned, no call of get_all_blocks,         *)
(* get_block_texture, find_closest_block, process_skin or process_cape     *)
(* changes the palette's textures or colours, and every get_all_blocks     *)
(* returns the blocks with their colours in the order they were loaded.    *)
(***************************************************************************)
C15_PaletteFrame ==
    /\ [][pc # "init" => (blocks' = blocks /\ average_colors' = average_colors)]_vars
    /\ [](ret.call = "get_all_blocks" =>
            /\ Len(ret.value) = Len(blocks)
            /\ \A i \in 1..Len(blocks) :
                  /\ ret.value[i][1] = blocks[i][1]
                  /\ \E j \in 1..Len(average_colors) :
                        average_colors[j] = ret.value[i])

\* get_block_texture has returned a texture of a palette of two blocks.
C15_Witness ==
    /\ ret.call = "get_block_texture"
    /\ ret.raised = "None"
    /\ Len(blocks) = 2
    /\ ret.value = blocks[2][2]

(***************************************************************************)
(* BlockPalette._calculate_average_color in the arithmetic of the code:    *)
(* weight, the four sums and the quotients are IEEE-754 doubles, every     *)
(* operation rounded to 53 bits, ties to even.  A double is held exactly   *)
(* as a natural number of units, the number in limbs of LimbBits bits,     *)
(* least significant first; <<>> is zero.  For pixels of alpha 255 every   *)
(* weight is 1.0, the sums are whole numbers and nothing is rounded before *)
(* the quotient: this is the case calculate_average_color above computes.  *)
(***************************************************************************)
LimbBase == 32768
LimbBits == 15

RECURSIVE Pow2(_)
Pow2(n) == IF n = 0 THEN 1 ELSE 2 * Pow2(n - 1)

RECURSIVE BigTrim(_)
BigTrim(a) ==
    IF Len(a) > 0 /\ a[Len(a)] = 0 THEN BigTrim(SubSeq(a, 1, Len(a) - 1)) ELSE a

Limb(a, i) == IF i <= Len(a) THEN a[i] ELSE 0

RECURSIVE BigAddFrom(_, _, _, _)
BigAddFrom(a, b, i, carry) ==
    IF i > Len(a) /\ i > Len(b)
    THEN IF carry = 0 THEN <<>> ELSE <<carry>>
    ELSE LET t == Limb(a, i) + Limb(b, i) + carry
         IN  <<t % LimbBase>> \o BigAddFrom(a, b, i + 1, t \div LimbBase)

BigAdd(a, b) == BigAddFrom(a, b, 1, 0)

RECURSIVE BigSubFrom(_, _, _, _)
BigSubFrom(a, b, i, borrow) ==
    IF i > Len(a) THEN <<>>
    ELSE LET t == a[i] - Limb(b, i) - borrow
         IN  <<IF t < 0 THEN t + LimbBase ELSE t>>
             \o BigSubFrom(a, b, i + 1, IF t < 0 THEN 1 ELSE 0)

\* a - b for a >= b
BigSub(a, b) == BigTrim(BigSubFrom(a, b, 1, 0))

RECURSIVE BigLessFrom(_, _, _)
BigLessFrom(a, b, i) ==
    IF i = 0 THEN FALSE
    ELSE IF a[i] # b[i] THEN a[i] < b[i]
    ELSE BigLessFrom(a, b, i - 1)

\* a < b, both trimmed
BigLess(a, b) ==
    IF Len(a) # Len(b) THEN Len(a) < Len(b) ELSE BigLessFrom(a, b, Len(a))

RECURSIVE BigMulFrom(_, _, _, _)
BigMulFrom(a, k, i, carry) ==
    IF i > Len(a)
    THEN IF carry = 0 THEN <<>> ELSE <<carry>>
    ELSE LET t == a[i] * k + carry
         IN  <<t % LimbBase>> \o BigMulFrom(a, k, i + 1, t \div LimbBase)

\* a * k for 0 <= k < LimbBase
BigMulSmall(a, k) == BigTrim(BigMulFrom(a, k, 1, 0))

\* a * 2^n
BigShl(a, n) ==
    IF a = <<>> THEN <<>>
    ELSE [i \in 1..(n \div LimbBits) |-> 0] \o BigMulSmall(a, Pow2(n % LimbBits))

RECURSIVE BigDivFrom(_, _, _, _)
\* the limbs i..1 of floor(a / k), given the remainder of the limbs above
BigDivFrom(a, k, i, rem) ==
    IF i = 0 THEN <<>>
    ELSE LET t == rem * LimbBase + a[i]
         IN  BigDivFrom(a, k, i - 1, t % k) \o <<t \div k>>

\* floor(a / k) for 0 < k <= LimbBase
BigDivSmall(a, k) == BigTrim(BigDivFrom(a, k, Len(a), 0))

\* floor(a / 2^n)
BigShr(a, n) ==
    BigDivSmall(SubSeq(a, n \div LimbBits + 1, Len(a)), Pow2(n % LimbBits))

RECURSIVE BitLenInt(_)
BitLenInt(n) == IF n = 0 THEN 0 ELSE 1 + BitLenInt(n \div 2)

BitLen(a) == IF a = <<>> THEN 0 ELSE LimbBits * (Len(a) - 1) + BitLenInt(a[Len(a)])

BigOdd(a) == a # <<>> /\ a[1] % 2 = 1

\* Round to 53 significant bits, ties to even; sticky: the value is a little more than a.
RoundDouble(a, sticky) ==
    LET s == BitLen(a) - 53
    IN  IF s <= 0 THEN a
        ELSE LET q == BigShr(a, s)
                 rem == BigSub(a, BigShl(q, s))
                 half == BigShl(<<1>>, s - 1)
                 up == \/ BigLess(half, rem)
                       \/ (rem = half /\ (sticky \/ BigOdd(q)))
             IN  BigShl(IF up THEN BigAdd(q, <<1>>) ELSE q, s)

\* The sums are doubles held as multiples of 2^-FracBits: every weight is at
\* least 1/255, so its 53 bits end above 2^-61.
FracBits == 64

\* weight = a / 255.0
Weight(a) ==
    LET n == BigShl(<<a>>, FracBits)
        q == BigDivSmall(n, 255)
    IN  IF a = 0 THEN <<>> ELSE RoundDouble(q, BigMulSmall(q, 255) # n)

\* r * weight
FMulInt(r, x) == RoundDouble(BigMulSmall(x, r), FALSE)

\* x + y
FAdd(x, y) == RoundDouble(BigTrim(BigAdd(x, y)), FALSE)

QuotLimbs == 6
QuotBits == QuotLimbs * LimbBits

\* floor(rem / y) for rem < y * LimbBase, the top limb of y at least LimbBase / 2:
\* the estimate from the top limbs is at most 2 too large.
QuotientLimb(rem, y) ==
    LET n == Len(y)
        top == Limb(rem, n + 1) * LimbBase + Limb(rem, n)
        est0 == IF top \div y[n] >= LimbBase THEN LimbBase - 1 ELSE top \div y[n]
        est1 == IF BigLess(rem, BigMulSmall(y, est0)) THEN est0 - 1 ELSE est0
        est2 == IF BigLess(rem, BigMulSmall(y, est1)) THEN est1 - 1 ELSE est1
    IN  est2

RECURSIVE LongDivision(_, _, _)
\* the limbs i..0 of the quotient rem / y, and whether a remainder is left
LongDivision(rem, y, i) ==
    LET d == QuotientLimb(rem, y)
        left == BigSub(rem, BigMulSmall(y, d))
    IN  IF left = <<>> THEN [q |-> [j \in 1..i |-> 0] \o <<d>>, inexact |-> FALSE]
        ELSE IF i = 0 THEN [q |-> <<d>>, inexact |-> TRUE]
        ELSE LET low == LongDivision(BigShl(left, LimbBits), y, i - 1)
             IN  [q |-> low.q \o <<d>>, inexact |-> low.inexact]

\* x / y as a double, in units of 2^-QuotBits (y > 0, x / y < LimbBase)
FDiv(x, y) ==
    IF x = <<>> THEN <<>>
    ELSE LET s == LimbBits - BitLenInt(y[Len(y)])
             d == LongDivision(BigShl(x, s), BigShl(y, s), QuotLimbs)
         IN  RoundDouble(BigTrim(d.q), d.inexact)

\* the integer a < LimbBase^2
BigToInt(a) == Limb(a, 1) + LimbBase * Limb(a, 2)

\* round(x) of Python, x in units of 2^-QuotBits
PyRound(x) ==
    LET k == BigShr(x, QuotBits)
        frac == BigSub(x, BigShl(k, QuotBits))
        half == BigShl(<<1>>, QuotBits - 1)
    IN  BigToInt(k) + (IF BigLess(half, frac) \/ (frac = half /\ BigOdd(k)) THEN 1 ELSE 0)

(***************************************************************************)
(* The textures _calculate_average_color is called with: one row of RGBA   *)
(* texels, up to MaxTexels of them.                                        *)
(***************************************************************************)
MaxTexels == 2

TexelValues ==
    {<<44, 1, 2, 1>>, <<189, 1, 3, 1>>, <<81, 0, 0, 77>>, <<15, 0, 0, 7>>,
     <<200, 150, 120, 255>>, <<190, 140, 100, 255>>, <<128, 128, 128, 0>>}

AverageTextures ==
    UNION {{[size |-> <<n, 1>>, data |-> d] : d \in [1..n -> TexelValues]}
           : n \in 1..MaxTexels}

AverageInit ==
    /\ directory = [kind |-> "unread", listing |-> <<>>]
    /\ blocks = <<>>
    /\ average_colors = <<>>
    /\ pc = "init"
    /\ \E texture \in AverageTextures :
          ret = [call |-> "pending", arg |-> texture, value |-> <<>>, raised |-> "None"]
    /\ SkinIdle
    /\ CapeIdle
    /\ pixel_index = 0
    /\ output = NoImage
    /\ AverageIdle
    /\ files = <<>>
    /\ matcher_palette = SharedPalette

\* pixels = list(texture.getdata()) and the four sums set to 0
CalculateAverageColorEnter ==
    /\ pc = "init"
    /\ ret.call = "pending"
    /\ pc' = "averaging"
    /\ pixel_index' = 0
    /\ r_sum' = <<>>
    /\ g_sum' = <<>>
    /\ b_sum' = <<>>
    /\ weight_sum' = <<>>
    /\ UNCHANGED <<palette_vars, ret, skin_vars, cape_vars, output, files, matcher_palette>>

\* One turn of "for pixel in pixels".
CalculateAverageColorPixel ==
    /\ pc = "averaging"
    /\ pixel_index < Len(ret.arg.data)
    /\ LET pixel == ret.arg.data[pixel_index + 1]
           weight == Weight(pixel[4])
       IN  /\ r_sum' = FAdd(r_sum, FMulInt(pixel[1], weight))
           /\ g_sum' = FAdd(g_sum, FMulInt(pixel[2], weight))
           /\ b_sum' = FAdd(b_sum, FMulInt(pixel[3], weight))
           /\ weight_sum' = FAdd(weight_sum, weight)
    /\ pixel_index' = pixel_index + 1
    /\ UNCHANGED <<palette_vars, pc, ret, skin_vars, cape_vars, output, files, matcher_palette>>

\* The return value after the loop.
AverageResult(r, g, b, w) ==
    IF w = <<>> THEN <<0, 0, 0>>
    ELSE <<PyRound(FDiv(r, w)), PyRound(FDiv(g, w)), PyRound(FDiv(b, w))>>

CalculateAverageColorReturn ==
    /\ pc = "averaging"
    /\ pixel_index = Len(ret.arg.data)
    /\ pc' = "done"
    /\ ret' = [call |-> "_calculate_average_color", arg |-> ret.arg,
               value |-> AverageResult(r_sum, g_sum, b_sum, weight_sum),
               raised |-> "None"]
    /\ UNCHANGED <<palette_vars, skin_vars, cape_vars, pixel_index, output, average_vars, files, matcher_palette>>

AverageNext ==
    \/ CalculateAverageColorEnter
    \/ CalculateAverageColorPixel
    \/ CalculateAverageColorReturn

SpecAverage == AverageInit /\ [][AverageNext]_vars

AverageReturned == ret.call = "_calculate_average_color"

\* The texture has a pixel of alpha > 0.
SomeAlpha(texture) == \E k \in 1..Len(texture.data) : texture.data[k][4] > 0

\* round(sum of channel * alpha / sum of alpha), in exact arithmetic
RoundedMean(texture, ch) ==
    Round(WeightedChannelSum(texture.data, ch, Len(texture.data)),
          WeightedChannelSum(texture.data, 4, Len(texture.data)))

\* The texture is of alpha 255 and one colour throughout.
SolidOpaque(texture) ==
    \A k \in 1..Len(texture.data) :
        texture.data[k][4] = 255 /\ RGB(texture.data[k]) = RGB(texture.data[1])

\* C16, as stated: _calculate_average_color returns per channel the rounded
\* alpha-weighted mean when some pixel has alpha > 0 and (0, 0, 0) when every
\* pixel has alpha 0, and the colour of a solid texture of alpha 255.  It is
\* violated: where the exact mean lies halfway between two integers the
\* rounding of the doubles decides, and the result can be the other integer.
C16_RoundedWeightedMean ==
    AverageReturned =>
        /\ SomeAlpha(ret.arg) =>
              ret.value = <<RoundedMean(ret.arg, 1), RoundedMean(ret.arg, 2),
                            RoundedMean(ret.arg, 3)>>
        /\ ~SomeAlpha(ret.arg) => ret.value = <<0, 0, 0>>
        /\ SolidOpaque(ret.arg) => ret.value = RGB(ret.arg.data[1])

\* The textures of alpha 255 throughout, which is what calculate_average_color
\* is applied to: there the doubles give the rounded mean.
OpaqueAverageExact ==
    (AverageReturned /\ \A k \in 1..Len(ret.arg.data) : ret.arg.data[k][4] = 255)
        => ret.value = calculate_average_color(ret.arg)

(***************************************************************************)
(* load_skin and load_cape called directly, on a file that may be missing, *)
(* no image at all, an image whose pixel data is cut short, or a whole     *)
(* image, of the skin's size, the cape's or another.                       *)
(***************************************************************************)
MissingFile == [exists |-> FALSE, opens |-> FALSE, decodes |-> FALSE, image |-> NoImage]

GarbageFile == [exists |-> TRUE, opens |-> FALSE, decodes |-> FALSE, image |-> NoImage]

\* The image in mode RGB.
DropAlpha(image) ==
    [size |-> image.size, data |-> [k \in 1..Len(image.data) |-> RGB(image.data[k])]]

InputImages ==
    SkinSized \cup CapeSized
    \cup {DropAlpha(i) : i \in SkinSized \cup CapeSized}
    \cup {PatternImage(w, h, [k \in 1..PatternLen |-> Append(Gray, 255)])
            : w \in {SkinWidth - 1, SkinWidth + 1},
              h \in {CapeHeight, SkinHeight}}

InputFiles ==
    {MissingFile, GarbageFile}
    \cup {[exists |-> TRUE, opens |-> TRUE, decodes |-> d, image |-> i]
            : d \in BOOLEAN, i \in InputImages}

InputInit ==
    /\ directory = [kind |-> "unread", listing |-> <<>>]
    /\ blocks = <<>>
    /\ average_colors = <<>>
    /\ pc = "init"
    /\ \E file \in InputFiles :
          ret = [call |-> "pending", arg |-> file, value |-> <<>>, raised |-> "None"]
    /\ SkinIdle
    /\ CapeIdle
    /\ pixel_index = 0
    /\ output = NoImage
    /\ AverageIdle
    /\ files = <<>>
    /\ matcher_palette = SharedPalette

\* load_skin(skin_path)
LoadSkin ==
    /\ pc = "init"
    /\ ret.call = "pending"
    /\ ret' = [call |-> "load_skin", arg |-> ret.arg,
               value |-> IF load_skin_raises(ret.arg) = "None"
                         THEN ConvertRGBA(ret.arg.image) ELSE <<>>,
               raised |-> load_skin_raises(ret.arg)]
    /\ UNCHANGED <<palette_vars, pc, skin_vars, cape_vars, pixel_index, output, average_vars, files, matcher_palette>>

\* load_cape(cape_path)
LoadCape ==
    /\ pc = "init"
    /\ ret.call = "pending"
    /\ ret' = [call |-> "load_cape", arg |-> ret.arg,
               value |-> IF load_cape_raises(ret.arg) = "None"
                         THEN ConvertRGBA(ret.arg.image) ELSE <<>>,
               raised |-> load_cape_raises(ret.arg)]
    /\ UNCHANGED <<palette_vars, pc, skin_vars, cape_vars, pixel_index, output, average_vars, files, matcher_palette>>

InputNext == LoadSkin \/ LoadCape

SpecInput == InputInit /\ [][InputNext]_vars

\* The size load_skin or load_cape expects.
ExpectedSize(call) ==
    IF call = "load_skin" THEN <<SkinWidth, SkinHeight>> ELSE <<CapeWidth, CapeHeight>>

\* The call returned the file's image in mode RGBA.
ReturnedRGBA ==
    /\ ret.raised = "None"
    /\ ret.value.size = ret.arg.image.size
    /\ Len(ret.value.data) = Len(ret.arg.image.data)
    /\ \A k \in 1..Len(ret.value.data) :
          /\ Len(ret.value.data[k]) = 4
          /\ RGB(ret.value.data[k]) = RGB(ret.arg.image.data[k])

\* What the outcomes of load_skin and load_cape have in common with the
\* statement of C17 and with its amendment.
LoadOutcomeBut(invalid_image) ==
    ret.call \in {"load_skin", "load_cape"} =>
        LET file == ret.arg
            right == file.opens /\ file.image.size = ExpectedSize(ret.call)
        IN  /\ ret.raised \in {"None", "InvalidDimensionsError", "InvalidImageError"}
            /\ ReturnedRGBA <=> (right /\ file.decodes)
            /\ ret.raised = "InvalidDimensionsError" <=> (file.opens /\ ~right)
            /\ ret.raised = "InvalidImageError" <=> invalid_image

\* C17 (amended): load_skin returns the RGBA image if and only if the file
\* decodes as an image of exactly the skin's size; it raises
\* InvalidDimensionsError if and only if the file opens as an image of any
\* other size, whether or not its pixel data can be decoded, and
\* InvalidImageError if and only if the file is missing, does not open as an
\* image, or opens with the right size and cannot be decoded; an
\* InvalidDimensionsError is never turned into an InvalidImageError.
\* load_cape behaves the same with the cape's size.
C17_LoadOutcomes ==
    LoadOutcomeBut(\/ ~ret.arg.exists
                   \/ ~ret.arg.opens
                   \/ (ret.arg.image.size = ExpectedSize(ret.call) /\ ~ret.arg.decodes))

\* C17 as stated: InvalidImageError if and only if the file is missing or
\* cannot be decoded.  A file of another size whose pixel data is cut short
\* cannot be decoded and yet raises InvalidDimensionsError.
C17_InvalidImageIffUndecodable ==
    LoadOutcomeBut(~ret.arg.exists \/ ~ret.arg.decodes)

\* load_skin met a file of another size whose pixel data cannot be decoded.
C17_Witness ==
    /\ ret.call = "load_skin"
    /\ ret.arg.opens
    /\ ~ret.arg.decodes
    /\ ret.arg.image.size # ExpectedSize("load_skin")
    /\ ret.raised = "InvalidDimensionsError"

(***************************************************************************)
(* save_output.  A path is a file name (dot-separated segments); the file  *)
(* system maps the paths that exist to what they hold.                     *)
(***************************************************************************)
MaxSaves == 2

\* os.path.splitext(path)[1], as the segments after the root
SplitExtExt(filename) == SubSeq(filename, Len(SplitExtRoot(filename)) + 1, Len(filename))

\* f"{base}_{counter}{ext}"
CounterPath(output_path, counter) ==
    LET base == SplitExtRoot(output_path)
    IN  SubSeq(base, 1, Len(base) - 1)
        \o <<base[Len(base)] \o "_" \o ToString(counter)>>
        \o SplitExtExt(output_path)

\* os.path.exists(path)
Exists(fs, path) == path \in DOMAIN fs

RECURSIVE FreeCounter(_, _, _)
\* "while os.path.exists(f"{base}_{counter}{ext}"): counter += 1"
FreeCounter(fs, output_path, counter) ==
    IF Exists(fs, CounterPath(output_path, counter))
    THEN FreeCounter(fs, output_path, counter + 1)
    ELSE counter

\* A faulty variant: the requested path is used whether or not it exists.
TargetPath_overwrite(fs, output_path, default) ==
    [path |-> IF output_path = None THEN default ELSE output_path, counter |-> 0]

\* The path save_output writes, and the counter in it (0: the path asked for).
TargetPath(fs, output_path, default) ==
    LET requested == IF output_path = None THEN default ELSE output_path
    IN  IF Exists(fs, requested)
        THEN [path |-> CounterPath(requested, FreeCounter(fs, requested, 1)),
              counter |-> FreeCounter(fs, requested, 1)]
        ELSE [path |-> requested, counter |-> 0]

\* The file system with the content at the path.
WriteFile(fs, path, content) ==
    [q \in DOMAIN fs \cup {path} |-> IF q = path THEN content ELSE fs[q]]

DefaultSkinPath == <<"minecraft_skin_output", "png">>
DefaultCapePath == <<"minecraft_cape_output", "png">>
OutPath == <<"out", "png">>

\* The output_path arguments.
OutputPaths == {None, OutPath, CounterPath(OutPath, 1), <<"out">>}

\* A file that was there before, a PNG that was saved, and what a failed
\* save may leave behind.
OldContent == [kind |-> "old", image |-> NoImage]
Saved(output_image) == [kind |-> "png", image |-> output_image]
PartialContent == [kind |-> "partial", image |-> NoImage]

\* The file systems save_output starts in.
InitialFiles ==
    {[q \in paths |-> OldContent]
        : paths \in SUBSET {DefaultSkinPath, OutPath, CounterPath(OutPath, 1),
                            CounterPath(OutPath, 2)}}

\* save_output(output_image, output_path) of the processor whose default
\* name is given: the outcomes it may have.  Image.save may fail (no such
\* directory, no permission, a full disk), before or after it has created
\* the file.
save_output(fs, output_image, output_path, default) ==
    LET target == TargetPath(fs, output_path, default)
    IN  {[files |-> WriteFile(fs, target.path, Saved(output_image)),
          value |-> target, raised |-> "None"]}
        \cup {[files |-> left, value |-> target, raised |-> "OutputSaveError"]
                 : left \in {fs, WriteFile(fs, target.path, PartialContent)}}

\* The files written so far.
Written == {q \in DOMAIN files : files[q].kind # "old"}

SaveInit ==
    /\ directory = [kind |-> "unread", listing |-> <<>>]
    /\ blocks = <<>>
    /\ average_colors = <<>>
    /\ pc = "init"
    /\ ret = NoCall
    /\ SkinIdle
    /\ CapeIdle
    /\ pixel_index = 0
    /\ output = NoImage
    /\ AverageIdle
    /\ files \in InitialFiles
    /\ matcher_palette = SharedPalette

\* SkinProcessor.save_output
SaveSkinOutput(output_path) ==
    /\ Cardinality(Written) < MaxSaves
    /\ \E outcome \in save_output(files, SkinCanvas, output_path, DefaultSkinPath) :
          /\ files' = outcome.files
          /\ ret' = [call |-> "save_output", arg |-> <<SkinCanvas, output_path, DefaultSkinPath>>,
                     value |-> outcome.value, raised |-> outcome.raised]
    /\ UNCHANGED <<palette_vars, pc, skin_vars, cape_vars, pixel_index, output, average_vars,
                   matcher_palette>>

\* CapeProcessor.save_output
SaveCapeOutput(output_path) ==
    /\ Cardinality(Written) < MaxSaves
    /\ \E outcome \in save_output(files, CapeCanvas, output_path, DefaultCapePath) :
          /\ files' = outcome.files
          /\ ret' = [call |-> "save_output", arg |-> <<CapeCanvas, output_path, DefaultCapePath>>,
                     value |-> outcome.value, raised |-> outcome.raised]
    /\ UNCHANGED <<palette_vars, pc, skin_vars, cape_vars, pixel_index, output, average_vars,
                   matcher_palette>>

SaveNext ==
    \/ \E output_path \in OutputPaths : SaveSkinOutput(output_path)
    \/ \E output_path \in OutputPaths : SaveCapeOutput(output_path)

SpecSave == SaveInit /\ [][SaveNext]_vars

\* What a save leaves alone: every path that existed holds what it held.
OldFilesUntouched == \A q \in DOMAIN files : q \in DOMAIN files' /\ files'[q] = files[q]

\* The path the save was asked for.
Requested(call) == IF call.arg[2] = None THEN call.arg[3] ELSE call.arg[2]

\* The path is the requested one if that was free, and otherwise base_N.ext
\* for the smallest N >= 1 whose name did not exist.
FirstFree(path, requested) ==
    IF requested \notin DOMAIN files THEN path = requested
    ELSE \E n \in 1..(Cardinality(DOMAIN files) + 1) :
            /\ path = CounterPath(requested, n)
            /\ path \notin DOMAIN files
            /\ \A k \in 1..(n - 1) : CounterPath(requested, k) \in DOMAIN files

\* A save that returned: exactly one file is new, the one at the first free name.
SavedAtFirstFree ==
    (ret'.call = "save_output" /\ ret'.raised = "None" /\ files' # files) =>
        \E path \in DOMAIN files' :
            /\ FirstFree(path, Requested(ret'))
            /\ DOMAIN files' = DOMAIN files \cup {path}
            /\ files'[path] = Saved(ret'.arg[1])

\* Two saves in a row to the same path, both returning.
SavedAgain ==
    /\ ret.call = "save_output" /\ ret.raised = "None"
    /\ ret'.call = "save_output" /\ ret'.raised = "None"
    /\ files' # files
    /\ Requested(ret') = Requested(ret)

\* C19 (amended): save_output never writes to a path that already existed: it
\* writes the requested path P if P is free and otherwise base_N.ext for the
\* smallest N >= 1 whose name does not exist; hence successive saves to the
\* same path, none of whose names P, P_1, ... existed before the first, create
\* P, P_1, P_2, ... in turn (here: the save after the one that wrote counter
\* c writes counter c + 1 when that name is free), and every file written
\* before is left untouched.
C19_NeverOverwrites ==
    [][/\ OldFilesUntouched
       /\ SavedAtFirstFree
       /\ (SavedAgain
           /\ CounterPath(Requested(ret), ret.value.counter + 1) \notin DOMAIN files)
          => ret'.value = [path |-> CounterPath(Requested(ret), ret.value.counter + 1),
                           counter |-> ret.value.counter + 1]]_vars

\* C19 as stated: k successive saves to the same path create P, P_1, ...,
\* P_(k-1) whatever else the directory holds.  With P_2 there beforehand, the
\* save after P_1 writes P_3.
C19_AlwaysNextCounter ==
    [][SavedAgain
       => ret'.value = [path |-> CounterPath(Requested(ret), ret.value.counter + 1),
                        counter |-> ret.value.counter + 1]]_vars

\* Two saves to out.png were made next to an older out.png: out_1.png and
\* out_2.png are new and out.png is as it was.
C19_Witness ==
    /\ ret.call = "save_output"
    /\ ret.raised = "None"
    /\ Requested(ret) = OutPath
    /\ ret.value.counter = 2
    /\ files[OutPath] = OldContent
    /\ files[CounterPath(OutPath, 1)].kind = "png"
    /\ files[CounterPath(OutPath, 2)].kind = "png"

(***************************************************************************)
(* convert_skin and convert_cape to the end: load, process, save.  The     *)
(* processor's palette holds stone; its matcher is built on that palette   *)
(* or on another one that also holds sand.                                 *)
(***************************************************************************)
MaxConverts == 1

\* Bitmaps of gray pixels, and of a gray pixel before skin tone ones, the
\* first of them opaque.
ConvertPatterns ==
    {[k \in 1..PatternLen |-> Append(Gray, 255)],
     [k \in 1..PatternLen |->
         IF k = 1 THEN Append(Gray, 255)
         ELSE IF k = 2 THEN Append(SkinTone, 255) ELSE Append(SkinTone, 127)]}

\* A file that cannot be opened, images of the two sizes, and an image whose
\* pixel data is cut short.
ConvertFiles ==
    {CorruptFile}
    \cup {[opens |-> TRUE, decodes |-> TRUE, image |-> PatternImage(size[1], size[2], pattern)]
            : size \in {<<SkinWidth, SkinHeight>>, <<CapeWidth, CapeHeight>>},
              pattern \in ConvertPatterns}
    \cup {[opens |-> TRUE, decodes |-> FALSE,
           image |-> PatternImage(SkinWidth, SkinHeight, [k \in 1..PatternLen |-> Append(Gray, 255)])]}

\* The palette load_blocks makes of the listing.
LoadedPalette(listing) ==
    LoadLoop(listing, 1, [blocks |-> <<>>, average_colors |-> <<>>, loaded_count |-> 0])

ConvertInit ==
    /\ directory = [kind |-> "dir", listing |-> <<StoneFile.filename>>]
    /\ blocks = LoadedPalette(<<StoneFile>>).blocks
    /\ average_colors = LoadedPalette(<<StoneFile>>).average_colors
    /\ matcher_palette \in
          {SharedPalette,
           [shared |-> FALSE,
            blocks |-> LoadedPalette(<<StoneFile, SandFile>>).blocks,
            average_colors |-> LoadedPalette(<<StoneFile, SandFile>>).average_colors]}
    /\ pc = "ready"
    /\ ret = NoCall
    /\ SkinIdle
    /\ CapeIdle
    /\ pixel_index = 0
    /\ output = NoImage
    /\ AverageIdle
    /\ files \in {<<>>, [q \in {DefaultSkinPath, DefaultCapePath} |-> OldContent]}

\* convert_skin or convert_cape returns.
ConvertReturn(call, target) ==
    [call |-> call, arg |-> <<>>, value |-> target, raised |-> "None", cause |-> "None"]

\* "self.save_output(output_image, output_path)" and the end of convert_skin
SkinSave(output_path) ==
    /\ pc = "process_skin"
    /\ pixel_index = SkinWidth * SkinHeight
    /\ \E outcome \in save_output(files, output, output_path, DefaultSkinPath) :
          /\ files' = outcome.files
          /\ ret' = IF outcome.raised = "None"
                    THEN ConvertReturn("convert_skin", outcome.value)
                    ELSE ConvertRaise("convert_skin", outcome.raised)
    /\ skin' = NoImage
    /\ color_to_block_cache' = <<>>
    /\ output' = NoImage
    /\ pixel_index' = 0
    /\ pc' = "ready"
    /\ UNCHANGED <<palette_vars, cape_vars, average_vars, matcher_palette>>

\* "self.save_output(output_image, output_path)" and the end of convert_cape
CapeSave(output_path) ==
    /\ pc = "process_cape"
    /\ pixel_index = CapeWidth * CapeHeight
    /\ \E outcome \in save_output(files, output, output_path, DefaultCapePath) :
          /\ files' = outcome.files
          /\ ret' = IF outcome.raised = "None"
                    THEN ConvertReturn("convert_cape", outcome.value)
                    ELSE ConvertRaise("convert_cape", outcome.raised)
    /\ cape' = NoImage
    /\ unique_colors' = {}
    /\ color_frequency' = <<>>
    /\ sorted_colors' = <<>>
    /\ color_index' = 0
    /\ color_to_block' = <<>>
    /\ used_blocks' = {}
    /\ output' = NoImage
    /\ pixel_index' = 0
    /\ pc' = "ready"
    /\ UNCHANGED <<palette_vars, skin_vars, average_vars, matcher_palette>>

ConvertNext ==
    \/ /\ Cardinality(Written) < MaxConverts
       /\ \E file \in ConvertFiles : ConvertSkin(file)
    \/ SkinPixel
    \/ \E output_path \in {None, OutPath} : SkinSave(output_path)
    \/ /\ Cardinality(Written) < MaxConverts
       /\ \E file \in ConvertFiles : ConvertCape(file)
    \/ CapeAssign
    \/ CapeStartRender
    \/ CapePixel
    \/ \E output_path \in {None, OutPath} : CapeSave(output_path)

SpecConvert == ConvertInit /\ [][ConvertNext]_vars

\* convert_skin or convert_cape has ended, returning or raising.
ConvertEnded(call) == call.call \in {"convert_skin", "convert_cape"}

Propagated == {"InvalidImageError", "InvalidDimensionsError", "OutputSaveError"}

\* The call ends in one of the five ways; an exception of the three kinds is
\* the one that was raised, not a wrapped one, and a ProcessingError carries
\* an exception of another kind as its cause.
EndsAsDeclared ==
    ConvertEnded(ret) =>
        /\ ret.raised \in {"None", "ProcessingError"} \cup Propagated
        /\ ret.raised \in Propagated \cup {"None"} => ret.cause = "None"
        /\ ret.raised = "ProcessingError" =>
              ret.cause \notin Propagated \cup {"None", "ProcessingError"}

\* Where the call ends: while loading with one of the two load errors; while
\* matching and compositing with a wrapped exception and nothing written;
\* in the save with OutputSaveError, or normally with the canvas saved in a
\* new file.
EndsWhereDeclared ==
    (ConvertEnded(ret') /\ ret' # ret) =>
        LET pixels == IF pc = "process_skin" THEN SkinWidth * SkinHeight
                      ELSE CapeWidth * CapeHeight
        IN  /\ pc \in {"ready", "process_skin", "process_cape"}
            /\ pc = "ready" => ret'.raised \in {"InvalidImageError", "InvalidDimensionsError"}
            /\ (pc # "ready" /\ pixel_index < pixels) =>
                  (ret'.raised = "ProcessingError" /\ files' = files)
            /\ (pc # "ready" /\ pixel_index = pixels) =>
                  /\ ret'.raised \in {"None", "OutputSaveError"}
                  /\ ret'.raised = "None" =>
                        /\ ret'.value.path \notin DOMAIN files
                        /\ files' = WriteFile(files, ret'.value.path, Saved(output))

\* C18: convert_skin and convert_cape either return normally after the
\* output has been saved, or raise exactly one of InvalidImageError,
\* InvalidDimensionsError, OutputSaveError and ProcessingError; the first
\* three propagate unchanged, and every other exception (the KeyError for a
\* block name the processor's palette does not hold) is wrapped in
\* ProcessingError with the original as its cause.
C18_ConvertOutcomes == []EndsAsDeclared /\ [][EndsWhereDeclared]_vars

\* convert_skin met a block name its palette does not hold.
C18_Witness ==
    /\ ret.call = "convert_skin"
    /\ ret.raised = "ProcessingError"
    /\ ret.cause = "KeyError"

(***************************************************************************)
(* The cache of process_skin.                                              *)
(***************************************************************************)
\* The pixel the step of process_skin is at.
CurrentPixel == getpixel(skin, pixel_index % SkinWidth, pixel_index \div SkinWidth)

\* The canvas after the block of the current pixel is drawn with the block
\* that find_closest_block names for the pixel when asked afresh.
DrawnAfresh ==
    LET fresh == find_closest_block(MatcherBlocks, MatcherColors, CurrentPixel)
    IN  IF fresh = None THEN output
        ELSE paste(output, get_block_texture(blocks, fresh),
                   (pixel_index % SkinWidth) * BlockSize,
                   (pixel_index \div SkinWidth) * BlockSize)

\* Each entry of the cache is what find_closest_block returns for its colour
\* at every alpha from 128 up.
CacheAgrees ==
    \A i \in 1..Len(color_to_block_cache) :
        \A alpha \in {128, 255} :
            color_to_block_cache[i][2] =
                find_closest_block(MatcherBlocks, MatcherColors,
                                   Append(color_to_block_cache[i][1], alpha))

\* C20: memoization in process_skin does not change the result: for every
\* opaque pixel (alpha >= 128) the block drawn is the one find_closest_block
\* returns for that pixel computed afresh, although the cache is keyed on the
\* RGB triple and pixels of one RGB and different alpha >= 128 share an entry.
C20_CacheTransparent ==
    [](pc = "process_skin" => CacheAgrees)
    /\ [][(pc = "process_skin" /\ pc' = "process_skin" /\ CurrentPixel[4] >= 128)
          => output' = DrawnAfresh]_vars

\* A pixel was drawn from the entry that a pixel of the same RGB and another
\* alpha had made.
C20_Witness ==
    /\ pc = "process_skin"
    /\ pixel_index = 2
    /\ getpixel(skin, 0, 0) = Append(SkinTone, 128)
    /\ getpixel(skin, 1, 0) = Append(SkinTone, 255)
    /\ Len(color_to_block_cache) = 1
    /\ color_to_block_cache[1][2] # None
    /\ getpixel(output, BlockSize, 0) # Transparent

(***************************************************************************)
(* The assignment loop of process_cape, step by step.                      *)
(***************************************************************************)
\* An iteration of "for color in sorted_colors" is taken; it recorded a block.
AssignStep == pc = "assign" /\ color_index' = color_index + 1

Recorded == AssignStep /\ color_to_block' # color_to_block

\* C21: at each step of the unique-mode assignment, the block recorded for
\* the current colour was unused before the step, no block unused at that
\* moment is strictly nearer to the colour, and of the unused blocks at the
\* least distance the earliest in the order of get_all_blocks is taken; a
\* step records nothing only when no block is unused.
C21_BestUnusedChosen ==
    [][/\ Recorded =>
            LET color == sorted_colors[color_index]
                best == DictGet(color_to_block', color)
                k == IndexOfBlock(best)
            IN  /\ DictHas(blocks, best)
                /\ best \notin used_blocks
                /\ used_blocks' = used_blocks \cup {best}
                /\ \A i \in 1..Len(blocks) :
                      blocks[i][1] \notin used_blocks =>
                          /\ DistanceTo(color, i) >= DistanceTo(color, k)
                          /\ (i < k => DistanceTo(color, i) > DistanceTo(color, k))
       /\ (AssignStep /\ ~Recorded) =>
            \A i \in 1..Len(blocks) : blocks[i][1] \in used_blocks]_vars

\* A colour has its block, and a later block of the palette, still unused,
\* is exactly as near to it: the order of the palette decided.
C21_Witness ==
    /\ pc = "assign"
    /\ Len(color_to_block) = 1
    /\ \E i \in 1..Len(blocks) :
          /\ i > IndexOfBlock(color_to_block[1][2])
          /\ blocks[i][1] \notin used_blocks
          /\ DistanceTo(color_to_block[1][1], i)
                = DistanceTo(color_to_block[1][1], IndexOfBlock(color_to_block[1][2]))

\* The number of opaque pixels of the image that have the colour.
PixelCount(image, color) ==
    Cardinality({k \in 1..Len(image.data) :
                    image.data[k][4] >= 128 /\ RGB(image.data[k]) = color})

\* The colours the assignment loop has been through, and those among them
\* that were left without a block.
Processed == {sorted_colors[i] : i \in 1..(color_index - 1)}

Unmapped == {c \in OpaqueColors(cape) : ~DictHas(color_to_block, c)}

\* C22: in unique mode the colours are processed in non-increasing order of
\* pixel count: while the assignment loop runs, no colour still to come has
\* more pixels than a colour already processed; so once the loop is over,
\* no colour left without a block has more pixels than a colour that has one.
C22_FrequentFirst ==
    /\ pc = "assign" =>
          /\ SeqToSet(sorted_colors) = OpaqueColors(cape)
          /\ \A c \in Processed : \A d \in OpaqueColors(cape) \ Processed :
                PixelCount(cape, c) >= PixelCount(cape, d)
    /\ AssignmentFinal =>
          \A u \in Unmapped : \A i \in 1..Len(color_to_block) :
              PixelCount(cape, u) <= PixelCount(cape, color_to_block[i][1])

\* One block and two colours: the colour of more pixels has the block, the
\* other is left without.
C22_Witness ==
    /\ AssignmentFinal
    /\ Len(blocks) = 1
    /\ Len(color_to_block) = 1
    /\ \E u \in Unmapped : PixelCount(cape, u) < PixelCount(cape, color_to_block[1][1])

\* The place of a colour in color_frequency, a dict filled by the row-major
\* scan: the order in which the colours were first met.
EncounterIndex(color) ==
    CHOOSE i \in 1..Len(color_frequency) : color_frequency[i][1] = color

\* C23: in unique mode, colours of equal pixel count are processed in the
\* order in which the row-major scan first met them.
C23_TiesInEncounterOrder ==
    pc = "assign" =>
        \A i, j \in 1..Len(sorted_colors) :
            (/\ i < j
             /\ DictGet(color_frequency, sorted_colors[i])
                   = DictGet(color_frequency, sorted_colors[j]))
                => EncounterIndex(sorted_colors[i]) < EncounterIndex(sorted_colors[j])

(***************************************************************************)
(* One palette and its processors used again and again, as a client of the *)
(* library may: load_blocks called on the palette at any time between the  *)
(* conversions, process_skin and process_cape called directly on images.   *)
(* The locals of a call are created when the call begins; here they keep   *)
(* the values the last call left until the next call begins.               *)
(***************************************************************************)
\* The directories load_blocks is called on: stone.png, sand.png and
\* stone.PNG (another texture for the name "stone"), all BlockSize wide.
RepeatDirectories ==
    {[kind |-> "dir", listing |-> l] : l \in {<<StoneFile>>, <<SandFile>>, <<StoneUpperFile>>,
                                               <<StoneFile, SandFile>>}}

\* The bitmaps, in mode RGBA and in mode RGB (pixels without alpha): two
\* colours, one of them once below the threshold; two colours, equally many
\* pixels each.
RepeatTriples ==
    {<<Append(Gray, 255), Append(SkinTone, 128), Append(SkinTone, 127)>>,
     <<Append(SkinTone, 255), Append(Gray, 255), Append(Gray, 255)>>}

RepeatPatterns ==
    {pattern \in Patterns :
        \E t \in RepeatTriples :
            /\ pattern[1] = t[1]
            /\ pattern[2] = t[2]
            /\ \A k \in 3..PatternLen : pattern[k] = t[3]}

RepeatSkins ==
    {PatternImage(SkinWidth, SkinHeight, p) : p \in RepeatPatterns}
    \cup {DropAlpha(PatternImage(SkinWidth, SkinHeight, p)) : p \in RepeatPatterns}

RepeatCapes ==
    {PatternImage(CapeWidth, CapeHeight, p) : p \in RepeatPatterns}
    \cup {DropAlpha(PatternImage(CapeWidth, CapeHeight, p)) : p \in RepeatPatterns}

\* load_blocks() on a palette that may hold blocks already.
ReloadBlocks(dir) ==
    /\ pc \in {"init", "ready"}
    /\ LET st == LoadLoop(dir.listing, 1,
                          [blocks |-> blocks, average_colors |-> average_colors,
                           loaded_count |-> 0])
           raised == load_blocks_raises(dir, st.loaded_count)
       IN  /\ directory' = [kind |-> dir.kind,
                           listing |-> [i \in 1..Len(dir.listing) |-> dir.listing[i].filename]]
           /\ blocks' = IF dir.kind = "dir" THEN st.blocks ELSE blocks
           /\ average_colors' = IF dir.kind = "dir" THEN st.average_colors
                                ELSE average_colors
           /\ ret' = [call |-> "load_blocks", arg |-> <<>>, value |-> <<>>,
                      raised |-> raised]
    /\ pc' = "ready"
    /\ UNCHANGED <<average_vars, files, matcher_palette>>
    /\ UNCHANGED <<skin_vars, cape_vars, pixel_index, output>>

\* process_skin(skin) begins: the cache and the canvas are created.
ProcessSkinStart(image) ==
    /\ pc = "ready"
    /\ skin' = image
    /\ color_to_block_cache' = <<>>
    /\ output' = SkinCanvas
    /\ pixel_index' = 0
    /\ pc' = "process_skin"
    /\ ret' = NoCall
    /\ UNCHANGED <<average_vars, files, matcher_palette>>
    /\ UNCHANGED <<palette_vars, cape_vars>>

\* "return output" of process_skin.
ProcessSkinReturn ==
    /\ pc = "process_skin"
    /\ pixel_index = SkinWidth * SkinHeight
    /\ ret' = Raise("process_skin", "None")
    /\ pc' = "ready"
    /\ UNCHANGED <<average_vars, files, matcher_palette>>
    /\ UNCHANGED <<palette_vars, skin_vars, cape_vars, pixel_index, output>>

\* A faulty variant: used_blocks kept on the processor, not made per call.
ProcessCapeStart_used_kept(image) ==
    /\ pc = "ready"
    /\ LET frequency == CountColors(image, CapeWidth, CapeWidth * CapeHeight)
       IN  /\ cape' = image
           /\ unique_colors' = SeqToSet(DictKeys(frequency))
           /\ color_frequency' = frequency
           /\ sorted_colors' \in SortedOrders(SeqToSet(DictKeys(frequency)), frequency)
    /\ color_index' = 1
    /\ color_to_block' = <<>>
    /\ used_blocks' = used_blocks
    /\ pc' = "assign"
    /\ ret' = NoCall
    /\ UNCHANGED <<average_vars, files, matcher_palette>>
    /\ UNCHANGED <<palette_vars, skin_vars, pixel_index, output>>

\* process_cape(cape) begins: the two scans of the bitmap, the sort, and the
\* empty assignment and used set.
ProcessCapeStart(image) ==
    /\ pc = "ready"
    /\ LET frequency == CountColors(image, CapeWidth, CapeWidth * CapeHeight)
       IN  /\ cape' = image
           /\ unique_colors' = SeqToSet(DictKeys(frequency))
           /\ color_frequency' = frequency
           /\ sorted_colors' \in SortedOrders(SeqToSet(DictKeys(frequency)), frequency)
    /\ color_index' = 1
    /\ color_to_block' = <<>>
    /\ used_blocks' = {}
    /\ pc' = "assign"
    /\ ret' = NoCall
    /\ UNCHANGED <<average_vars, files, matcher_palette>>
    /\ UNCHANGED <<palette_vars, skin_vars, pixel_index, output>>

\* "return output" of process_cape.
ProcessCapeReturn ==
    /\ pc = "process_cape"
    /\ pixel_index = CapeWidth * CapeHeight
    /\ ret' = Raise("process_cape", "None")
    /\ pc' = "ready"
    /\ UNCHANGED <<average_vars, files, matcher_palette>>
    /\ UNCHANGED <<palette_vars, skin_vars, cape_vars, pixel_index, output>>

RepeatNext ==
    \/ \E dir \in RepeatDirectories : ReloadBlocks(dir)
    \/ \E image \in RepeatSkins : ProcessSkinStart(image)
    \/ SkinPixel
    \/ ProcessSkinReturn
    \/ \E image \in RepeatCapes : ProcessCapeStart(image)
    \/ CapeAssign
    \/ CapeStartRender
    \/ CapePixel
    \/ ProcessCapeReturn

SpecRepeat == Init /\ [][RepeatNext]_vars

\* The colours of the pixels that process_cape counts.
CountedColors(image) ==
    {RGB(image.data[k]) :
        k \in {n \in 1..Len(image.data) :
                  Len(image.data[n]) >= 4 /\ image.data[n][4] >= 128}}

\* The canvas of process_skin is what the bitmap and the palette make it:
\* each block is the texture of the block nearest to its pixel, or nothing.
SkinAsFresh ==
    \A x \in 0..(SkinWidth - 1), y \in 0..(SkinHeight - 1) :
        LET fresh == find_closest_block(blocks, average_colors, getpixel(skin, x, y))
        IN  IF fresh = None THEN BlockTransparent(output, x, y)
            ELSE BlockIsTexture(output, x, y, get_block_texture(blocks, fresh))

\* The assignment of process_cape is what the order of the colours and the
\* palette make it: the i-th colour has the first of the nearest blocks that
\* no colour before it has.
AssignmentAsFresh ==
    /\ Len(color_to_block) = Min2(Len(sorted_colors), Len(blocks))
    /\ used_blocks = DictValues(color_to_block)
    /\ \A i \in 1..Len(color_to_block) :
          LET color == color_to_block[i][1]
              best == color_to_block[i][2]
              earlier == {color_to_block[j][2] : j \in 1..(i - 1)}
          IN  /\ color = sorted_colors[i]
              /\ DictHas(blocks, best)
              /\ best \notin earlier
              /\ \A m \in 1..Len(blocks) :
                    blocks[m][1] \notin earlier =>
                        /\ DistanceTo(color, m) >= DistanceTo(color, IndexOfBlock(best))
                        /\ (m < IndexOfBlock(best)
                              => DistanceTo(color, m) > DistanceTo(color, IndexOfBlock(best)))

\* The canvas of process_cape is what the bitmap and the assignment make it.
CapeAsFresh ==
    /\ SeqToSet(sorted_colors) = CountedColors(cape)
    /\ AssignmentAsFresh
    /\ \A x \in 0..(CapeWidth - 1), y \in 0..(CapeHeight - 1) :
          LET pixel_color == getpixel(cape, x, y)
          IN  IF IsTransparent(pixel_color) \/ ~DictHas(color_to_block, RGB(pixel_color))
              THEN BlockTransparent(output, x, y)
              ELSE BlockIsTexture(output, x, y,
                       get_block_texture(blocks, DictGet(color_to_block, RGB(pixel_color))))

\* C24: no state leaks between conversions: the cache of process_skin and
\* the assignment and used set of process_cape are empty when a call begins,
\* whatever the calls before left, and the canvas a call returns is the one
\* its bitmap and the palette of the moment determine.
C24_NoLeakBetweenCalls ==
    /\ (pc = "process_skin" /\ pixel_index = 0) =>
          (color_to_block_cache = <<>> /\ output = SkinCanvas)
    /\ (pc = "assign" /\ color_index = 1) => (color_to_block = <<>> /\ used_blocks = {})
    /\ (pc = "ready" /\ ret.call = "process_skin") => SkinAsFresh
    /\ (pc = "ready" /\ ret.call = "process_cape") => CapeAsFresh

\* A call of process_cape begins on a processor whose last call drew blocks
\* on its canvas; process_skin has run as well, and left its cache.
C24_Witness ==
    /\ pc = "assign"
    /\ color_index = 1
    /\ Len(sorted_colors) = 2
    /\ output.size = CapeCanvas.size
    /\ output # CapeCanvas
    /\ color_to_block_cache # <<>>

(***************************************************************************)
(* The command line: main() of __main__.py, one run.  The run ends with an *)
(* exit status; a run that converted has printed "Output saved to" with a  *)
(* path.  sys.exit(1) inside the try block raises SystemExit, which none   *)
(* of the except clauses catches.                                          *)
(***************************************************************************)
\* --blocks-dir: no such path, a file, an empty directory, a directory of
\* files none of which becomes a block, and directories with blocks.
MainDirectories ==
    {[kind |-> "missing", listing |-> <<>>], [kind |-> "file", listing |-> <<>>]}
    \cup {[kind |-> "dir", listing |-> l]
             : l \in {<<>>, <<NotesFile, StoneBrokenFile>>, <<StoneFile>>,
                      <<SandFile, StoneBrokenFile, StoneFile>>}}

\* --input: no such file, a file that is no image, a skin and a cape.
MainInputs ==
    {MissingFile, GarbageFile}
    \cup {[exists |-> TRUE, opens |-> TRUE, decodes |-> TRUE,
           image |-> PatternImage(size[1], size[2], pattern)]
            : size \in {<<SkinWidth, SkinHeight>>, <<CapeWidth, CapeHeight>>},
              pattern \in ConvertPatterns}

\* The working directory before the run.
MainFiles ==
    {[q \in paths |-> OldContent]
        : paths \in {{}, {DefaultSkinPath}, {DefaultCapePath}, {OutPath},
                     {OutPath, CounterPath(OutPath, 1)}}}

\* The except clauses of main: the status it returns for the exception.
main_returns(exception) == IF exception = "KeyboardInterrupt" THEN 130 ELSE 1

\* The run has ended: the exit status, the exception that ended it, the path
\* printed after "Output saved to" and the path save_output wrote (None: no
\* such line, no such file).
MainEnd(status, caught, printed, written) ==
    [call |-> "main", arg |-> <<>>,
     value |-> [status |-> status, caught |-> caught, printed |-> printed,
                written |-> written],
     raised |-> "None"]

\* "Determine actual output path": the path main prints once the conversion
\* has returned, from what exists then.
ActualOutput(fs, output_arg, default_output) ==
    LET asked == IF output_arg = None THEN default_output ELSE output_arg
    IN  IF Exists(fs, asked) THEN asked
        ELSE CounterPath(asked, FreeCounter(fs, asked, 1) - 1)

MainInit ==
    /\ directory = [kind |-> "unread", listing |-> <<>>]
    /\ blocks = <<>>
    /\ average_colors = <<>>
    /\ pc = "init"
    /\ ret = NoCall
    /\ SkinIdle
    /\ CapeIdle
    /\ pixel_index = 0
    /\ output = NoImage
    /\ AverageIdle
    /\ files \in MainFiles
    /\ matcher_palette = SharedPalette

\* "if not os.path.exists(args.blocks_dir): ... sys.exit(1)"
MainBlocksMissing ==
    /\ pc = "init"
    /\ directory' = [kind |-> "missing", listing |-> <<>>]
    /\ ret' = MainEnd(1, "SystemExit", None, None)
    /\ pc' = "done"
    /\ UNCHANGED <<blocks, average_colors, skin_vars, cape_vars, pixel_index, output,
                   average_vars, files, matcher_palette>>

\* load_blocks raised: the except clause prints the error and returns.
MainLoadFailed ==
    /\ pc = "exit"
    /\ ret.call = "load_blocks"
    /\ ret' = MainEnd(main_returns(ret.raised), ret.raised, None, None)
    /\ pc' = "done"
    /\ UNCHANGED <<palette_vars, skin_vars, cape_vars, pixel_index, output,
                   average_vars, files, matcher_palette>>

\* "if not os.path.exists(args.input): ... sys.exit(1)"
MainInputMissing ==
    /\ pc = "ready"
    /\ ret.call = "load_blocks"
    /\ ret' = MainEnd(1, "SystemExit", None, None)
    /\ pc' = "done"
    /\ UNCHANGED <<palette_vars, skin_vars, cape_vars, pixel_index, output,
                   average_vars, files, matcher_palette>>

\* convert_skin or convert_cape raised: the except clause returns.
MainConvertFailed ==
    /\ pc = "ready"
    /\ ConvertEnded(ret)
    /\ ret.raised # "None"
    /\ ret' = MainEnd(main_returns(ret.raised), ret.raised, None, None)
    /\ pc' = "done"
    /\ UNCHANGED <<palette_vars, skin_vars, cape_vars, pixel_index, output,
                   average_vars, files, matcher_palette>>

\* The end of the conversion and of the run: save_output, then either the
\* except clause for OutputSaveError or the lines that print the path.
MainAfterSave(outcome, output_arg, default_output) ==
    IF outcome.raised # "None" THEN MainEnd(main_returns(outcome.raised), outcome.raised, None, None)
    ELSE MainEnd(0, "None", ActualOutput(outcome.files, output_arg, default_output),
                 outcome.value.path)

MainSkinSave(output_arg) ==
    /\ pc = "process_skin"
    /\ pixel_index = SkinWidth * SkinHeight
    /\ \E outcome \in save_output(files, output, output_arg, DefaultSkinPath) :
          /\ files' = outcome.files
          /\ ret' = MainAfterSave(outcome, output_arg, DefaultSkinPath)
    /\ skin' = NoImage
    /\ color_to_block_cache' = <<>>
    /\ output' = NoImage
    /\ pixel_index' = 0
    /\ pc' = "done"
    /\ UNCHANGED <<palette_vars, cape_vars, average_vars, matcher_palette>>

MainCapeSave(output_arg) ==
    /\ pc = "process_cape"
    /\ pixel_index = CapeWidth * CapeHeight
    /\ \E outcome \in save_output(files, output, output_arg, DefaultCapePath) :
          /\ files' = outcome.files
          /\ ret' = MainAfterSave(outcome, output_arg, DefaultCapePath)
    /\ cape' = NoImage
    /\ unique_colors' = {}
    /\ color_frequency' = <<>>
    /\ sorted_colors' = <<>>
    /\ color_index' = 0
    /\ color_to_block' = <<>>
    /\ used_blocks' = {}
    /\ output' = NoImage
    /\ pixel_index' = 0
    /\ pc' = "done"
    /\ UNCHANGED <<palette_vars, skin_vars, average_vars, matcher_palette>>

MainNext ==
    \/ MainBlocksMissing
    \/ \E dir \in MainDirectories : dir.kind # "missing" /\ LoadBlocks(dir)
    \/ MainLoadFailed
    \/ MainInputMissing
    \/ \E file \in MainInputs : file.exists /\ ret.call = "load_blocks" /\ ConvertSkin(file)
    \/ \E file \in MainInputs : file.exists /\ ret.call = "load_blocks" /\ ConvertCape(file)
    \/ MainConvertFailed
    \/ SkinPixel
    \/ CapeAssign
    \/ CapeStartRender
    \/ CapePixel
    \/ \E output_arg \in {None, OutPath} : MainSkinSave(output_arg)
    \/ \E output_arg \in {None, OutPath} : MainCapeSave(output_arg)

SpecMain == MainInit /\ [][MainNext]_vars

\* The run is loading the input, matching, assigning or compositing.
Converting == pc \in {"process_skin", "assign", "process_cape"}

\* The palette source gave no block: it is missing, not a directory, or a
\* directory none of whose entries became a block.
NoBlocks == directory.kind # "dir" \/ Len(blocks) = 0

\* load_blocks has returned normally, some step ago.
LoadReturned == directory.kind = "dir" /\ Len(blocks) > 0 /\ pc # "init"

\* C25: in a run of the command line, the input is loaded, colours are
\* matched or assigned, the canvas is drawn and the output written only
\* once load_blocks has returned normally; a run whose palette source is
\* missing or gives no block ends with exit status 1 and creates no file.
C25_PaletteFirst ==
    /\ [][(Converting' \/ output' # output \/ files' # files \/ ConvertEnded(ret'))
            => (LoadReturned /\ blocks' = blocks /\ average_colors' = average_colors)]_vars
    /\ []((pc = "done" /\ NoBlocks) => (ret.value.status = 1 /\ Written = {}))
    /\ [](NoBlocks => (~Converting /\ Written = {} /\ output = NoImage))

\* The blocks directory holds files, yet none becomes a block: the run has
\* ended with status 1 on BlockPaletteEmptyError.
C25_Witness ==
    /\ pc = "done"
    /\ directory.kind = "dir"
    /\ Len(directory.listing) = 2
    /\ Len(blocks) = 0
    /\ ret.value.caught = "BlockPaletteEmptyError"
    /\ ret.value.status = 1

RECURSIVE FullScan(_, _, _, _, _)
\* The scan with no early return: every entry is measured, and the first
\* entry of the least distance is kept.
FullScan(all_blocks, i, pixel_rgb, min_distance, closest_block) ==
    IF i > Len(all_blocks) THEN closest_block
    ELSE LET distance == color_distance_ciede2000(pixel_rgb, all_blocks[i][2])
         IN  IF distance < min_distance
             THEN FullScan(all_blocks, i + 1, pixel_rgb, distance, all_blocks[i][1])
             ELSE FullScan(all_blocks, i + 1, pixel_rgb, min_distance, closest_block)

\* C26: the early return of find_closest_block on a distance of exactly 0
\* does not change its result: for every opaque pixel and palette it returns
\* the block a full scan returns, the first entry of the least distance.
C26_EarlyReturnSame ==
    (ret.call = "find_closest_block" /\ ~IsTransparent(ret.arg)) =>
        ret.value.closest_block
            = FullScan(get_all_blocks(blocks, average_colors), 1, RGB(ret.arg), Infinity, None)

\* The scan returned at the first entry, an exact match, with a second entry
\* not measured.
C26_Witness ==
    /\ ret.call = "find_closest_block"
    /\ Len(blocks) = 2
    /\ ret.value.scanned = 1
    /\ ret.value.closest_block = blocks[1][1]
    /\ DistanceTo(ret.arg, 1) = 0

\* The assignment loop of process_cape is just over.
AssignmentOver == pc = "assign" /\ color_index > Len(sorted_colors)

\* The block nearest mode gives the colour.
Nearest(color) == find_closest_block(blocks, average_colors, Append(color, 255))

\* Nearest mode gives no two opaque colours of the cape the same block.
NearestInjective ==
    \A c, d \in OpaqueColors(cape) : c # d => Nearest(c) # Nearest(d)

\* C27: if nearest mode maps the distinct opaque colours of a bitmap to
\* distinct blocks, unique mode gives every colour the block nearest mode
\* gives it, in whatever order the colours are processed; so a colour whose
\* nearest block matches it exactly has that block.
C27_UniqueIsNearestWhenInjective ==
    (AssignmentOver /\ NearestInjective) =>
        \A c \in OpaqueColors(cape) :
            /\ DictHas(color_to_block, c)
            /\ DictGet(color_to_block, c) = Nearest(c)

\* Two colours with two nearest blocks, one of them not an exact match, and
\* the colour of the inexact match was processed first.
C27_Witness ==
    /\ AssignmentOver
    /\ NearestInjective
    /\ Len(color_to_block) = 2
    /\ DistanceTo(color_to_block[1][1], IndexOfBlock(color_to_block[1][2])) > 0
    /\ DistanceTo(color_to_block[2][1], IndexOfBlock(color_to_block[2][2])) = 0

\* C28: when a run of the command line succeeds, the path printed as
\* "Output saved to" is the path of the file save_output wrote in this run,
\* also when the requested or default path existed before the run and
\* save_output chose a name with a counter.
C28_PrintedIsWritten ==
    (pc = "done" /\ ret.value.status = 0) =>
        /\ ret.value.printed = ret.value.written
        /\ files[ret.value.printed].kind = "png"

(***************************************************************************)
(* load_blocks called again and again on one palette, on directories that  *)
(* also hold files that do not decode and files not named *.png, and on    *)
(* paths that are no directory.                                            *)
(***************************************************************************)
ReloadFiles == {StoneFile, StoneUpperFile, StoneBrokenFile, SandFile, NotesFile}

ReloadListings ==
    UNION {{l \in [1..n -> ReloadFiles] : \A i, j \in 1..n : i # j => l[i] # l[j]}
           : n \in 0..MaxFiles}

ReloadDirectories ==
    {[kind |-> "missing", listing |-> <<>>], [kind |-> "file", listing |-> <<>>]}
    \cup {[kind |-> "dir", listing |-> l] : l \in ReloadListings}

ReloadNext == \E dir \in ReloadDirectories : ReloadBlocks(dir)

SpecReload == Init /\ [][ReloadNext]_vars

\* C29: in every state reached by any sequence of load_blocks calls, also
\* calls in which entries fail to load and calls that raise, the texture map
\* and the colour map of the palette have the same names (in the same
\* order, each once), each colour is that of the name's texture, and so
\* get_all_blocks finds a colour for every name.
C29_MapsInStep ==
    /\ DictKeys(blocks) = DictKeys(average_colors)
    /\ \A i, j \in 1..Len(blocks) : i # j => blocks[i][1] # blocks[j][1]
    /\ \A i \in 1..Len(blocks) :
          /\ DictHas(average_colors, blocks[i][1])
          /\ DictGet(average_colors, blocks[i][1]) = calculate_average_color(blocks[i][2])

\* A call on a directory whose only *.png entry does not decode has raised
\* BlockPaletteEmptyError; the palette holds the blocks of the calls before,
\* among them the block of the entry's name.
C29_Witness ==
    /\ ret.call = "load_blocks"
    /\ ret.raised = "BlockPaletteEmptyError"
    /\ \E i \in 1..Len(directory.listing) : directory.listing[i] = StoneBrokenFile.filename
    /\ Len(blocks) = 2
    /\ DictHas(blocks, <<"stone">>)

(***************************************************************************)
(* Pixels without an alpha component: bitmaps in mode RGB handed to        *)
(* process_skin and process_cape.                                          *)
(***************************************************************************)
\* The positions of the bitmap whose pixel is a 3-channel tuple.
ThreeChannel(image) == {n \in 1..Len(image.data) : Len(image.data[n]) = 3}

\* find_closest_block returns a block for a 3-channel pixel.
ThreeChannelMatched ==
    (pc = "ready" /\ Len(blocks) > 0) =>
        \A n \in ThreeChannel(skin) \cup ThreeChannel(cape) :
            find_closest_block(blocks, average_colors,
                               IF n \in ThreeChannel(skin) THEN skin.data[n]
                               ELSE cape.data[n]) # None

\* process_skin has drawn a block for every 3-channel pixel.
ThreeChannelSkinRendered ==
    (pc = "ready" /\ ret.call = "process_skin" /\ Len(blocks) > 0) =>
        \A x \in 0..(SkinWidth - 1), y \in 0..(SkinHeight - 1) :
            Len(getpixel(skin, x, y)) = 3 => ~BlockTransparent(output, x, y)

\* process_cape has counted the colour of every 3-channel pixel.
ThreeChannelCapeCounted ==
    pc \in {"assign", "process_cape"} =>
        \A n \in ThreeChannel(cape) :
            /\ cape.data[n] \in unique_colors
            /\ DictHas(color_frequency, cape.data[n])
            /\ cape.data[n] \in SeqToSet(sorted_colors)

\* process_cape has drawn a block for every 3-channel pixel when the palette
\* has a block for each colour.
ThreeChannelCapeRendered ==
    (/\ pc = "ready"
     /\ ret.call = "process_cape"
     /\ Len(blocks) >= Cardinality({cape.data[n] : n \in ThreeChannel(cape)})) =>
        \A x \in 0..(CapeWidth - 1), y \in 0..(CapeHeight - 1) :
            Len(getpixel(cape, x, y)) = 3 => ~BlockTransparent(output, x, y)

\* C30: a pixel without an alpha component is opaque to every stage:
\* find_closest_block returns a block for it, process_skin draws a block for
\* it, and process_cape counts its colour and draws a block for it.
C30_ThreeChannelOpaque ==
    /\ ThreeChannelMatched
    /\ ThreeChannelSkinRendered
    /\ ThreeChannelCapeCounted
    /\ ThreeChannelCapeRendered

====
